---- MODULE Spec2Model ----
(***************************************************************************)
(* Recurring-event engine of the scheduling module (routers/event.py):     *)
(* occurrence generator, exception overlay and series editor, together     *)
(* with the timezone normalizer (utils/timezone_utils.py).                 *)
(*                                                                         *)
(* Time is counted in minutes since 2024-01-01T00:00 (a Monday); a date is *)
(* the number of whole days since 2024-01-01.                              *)
(***************************************************************************)
EXTENDS Integers, Sequences, FiniteSets, TLC

\* Python's None where an integer or a datetime may be absent; every modelled
\* id, count, timestamp and timezone offset differs from it.
None == -1

MinutesPerDay == 1440

\* ------------------------------------------------------------------------
\* Bounds of the model
\* ------------------------------------------------------------------------

\* rows the events table may receive
MaxEvents == 2

\* rows the event_exceptions table may receive
MaxExceptions == 2

\* committed writes (create, update, delete) per behaviour
MaxWrites == 2

\* rule steps past the base start that requests reach (occurrence dates,
\* query windows)
MaxSteps == 3

\* ------------------------------------------------------------------------
\* Calendar arithmetic of datetime / timedelta / relativedelta
\* ------------------------------------------------------------------------

IsLeap(y) == (y % 4 = 0 /\ y % 100 # 0) \/ y % 400 = 0

DaysInMonth(y, m) ==
    IF m = 2 THEN (IF IsLeap(y) THEN 29 ELSE 28)
    ELSE IF m \in {4, 6, 9, 11} THEN 30 ELSE 31

LeapsBefore(y) == ((y - 1) \div 4) - ((y - 1) \div 100) + ((y - 1) \div 400)

\* days from 2024-01-01 to y-01-01
DaysBeforeYear(y) == 365 * (y - 2024) + (LeapsBefore(y) - LeapsBefore(2024))

RECURSIVE DaysBeforeMonth(_, _)
DaysBeforeMonth(y, m) ==
    IF m = 1 THEN 0 ELSE DaysBeforeMonth(y, m - 1) + DaysInMonth(y, m - 1)

\* date(y, m, d) as a day number
DaysFromCivil(y, m, d) == DaysBeforeYear(y) + DaysBeforeMonth(y, m) + (d - 1)

YearOf(n) ==
    LET y0 == 2024 + (n \div 366)
    IN IF n >= DaysBeforeYear(y0 + 1) THEN y0 + 1 ELSE y0

MonthOf(n) ==
    LET y   == YearOf(n)
        doy == n - DaysBeforeYear(y)
    IN CHOOSE m \in 1..12 :
          /\ DaysBeforeMonth(y, m) <= doy
          /\ doy < DaysBeforeMonth(y, m) + DaysInMonth(y, m)

DayOfMonth(n) == n - DaysBeforeYear(YearOf(n)) - DaysBeforeMonth(YearOf(n), MonthOf(n)) + 1

\* datetime.date(): the calendar date of a timestamp
DateOf(t) == t \div MinutesPerDay

\* time of day (hour, minute) of a timestamp
TimeOfDay(t) == t % MinutesPerDay

\* datetime.weekday(): 0 = Monday .. 6 = Sunday
Weekday(t) == DateOf(t) % 7

\* t + timedelta(days=n)
AddDays(t, n) == t + n * MinutesPerDay

\* t + relativedelta(months=n): same day of month, clamped to the month's end
AddMonths(t, n) ==
    LET dn == DateOf(t)
        y  == YearOf(dn)
        m0 == (MonthOf(dn) - 1) + n
        ny == y + (m0 \div 12)
        nm == (m0 % 12) + 1
        d  == DayOfMonth(dn)
        nd == IF d > DaysInMonth(ny, nm) THEN DaysInMonth(ny, nm) ELSE d
    IN DaysFromCivil(ny, nm, nd) * MinutesPerDay + TimeOfDay(t)

\* t + relativedelta(years=n): same month and day, Feb 29 clamped to Feb 28
AddYears(t, n) ==
    LET dn == DateOf(t)
        ny == YearOf(dn) + n
        m  == MonthOf(dn)
        d  == DayOfMonth(dn)
        nd == IF d > DaysInMonth(ny, m) THEN DaysInMonth(ny, m) ELSE d
    IN DaysFromCivil(ny, m, nd) * MinutesPerDay + TimeOfDay(t)

\* datetime(y, m, d, hh, mm) written as a timestamp
At(y, m, d, hh, mm) == DaysFromCivil(y, m, d) * MinutesPerDay + hh * 60 + mm

\* ------------------------------------------------------------------------
\* Timezone normalizer
\* ------------------------------------------------------------------------

\* a conversion to local time that adds the offset
convert_utc_to_user_timezone_adding(utc_datetime, timezone_offset_minutes) ==
    IF timezone_offset_minutes = None THEN utc_datetime
    ELSE utc_datetime + timezone_offset_minutes

convert_utc_to_user_timezone(utc_datetime, timezone_offset_minutes) ==
    IF timezone_offset_minutes = None THEN utc_datetime
    ELSE utc_datetime - timezone_offset_minutes

convert_user_to_utc_timezone(user_datetime, timezone_offset_minutes) ==
    IF timezone_offset_minutes = None THEN user_datetime
    ELSE user_datetime + timezone_offset_minutes

\* ------------------------------------------------------------------------
\* State
\* ------------------------------------------------------------------------

VARIABLES
    events,          \* events table: id -> Event row
    exceptions,      \* event_exceptions table: sequence of rows in insertion order
    next_event_id,   \* autoincrement of events.id
    next_exception_id, \* autoincrement of event_exceptions.id
    relativedelta,   \* TRUE iff "from dateutil.relativedelta import relativedelta" succeeded
    request,         \* the request being answered
    response,        \* its response: status and body
    before,          \* events and exceptions as they were when the request arrived
    writes           \* number of committed writes so far

vars == <<events, exceptions, next_event_id, next_exception_id, relativedelta,
          request, response, before, writes>>

store == <<events, exceptions, next_event_id, next_exception_id>>

\* ------------------------------------------------------------------------
\* Exception overlay
\* ------------------------------------------------------------------------

should_include_occurrence(event, occurrence_date, excs) ==
    ~\E i \in 1..Len(excs) :
        /\ excs[i].exception_date = DateOf(occurrence_date)
        /\ excs[i].exception_type = "deleted"

\* the replacement Event of the occurrence as <<event>>, or <<>> for None
get_modified_event_for_occurrence(event, occurrence_date, excs, modified_events_cache) ==
    LET Hit(x) == /\ x.exception_date = DateOf(occurrence_date)
                  /\ x.exception_type = "modified"
                  /\ x.modified_event_id # None
                  /\ x.modified_event_id # 0
        hits == {j \in 1..Len(excs) : Hit(excs[j])}
        \* "for exception in exceptions": the first row that matches, 0 if none
        i == IF hits = {} THEN 0 ELSE CHOOSE j \in hits : \A k \in hits : j <= k
    IN IF i = 0 THEN <<>>
       ELSE IF excs[i].modified_event_id \in DOMAIN modified_events_cache
            THEN <<modified_events_cache[excs[i].modified_event_id]>>
            ELSE <<>>

\* ------------------------------------------------------------------------
\* Response dictionaries
\* ------------------------------------------------------------------------

apply_timezone_to_event(event_dict, tz) ==
    IF tz = None THEN event_dict
    ELSE [event_dict EXCEPT
            !.start_time = convert_utc_to_user_timezone(@, tz),
            !.end_time = convert_utc_to_user_timezone(@, tz),
            !.repeat_until = IF @ # None THEN convert_utc_to_user_timezone(@, tz) ELSE @,
            !.original_start = IF @ # None THEN convert_utc_to_user_timezone(@, tz) ELSE @]

\* the dictionary of an Event row; is_repeat_instance and original_start are
\* absent from it (FALSE / None here)
EventDict(event) ==
    [id |-> event.id, user_id |-> event.user_id,
     parent_event_id |-> event.parent_event_id, title |-> event.title,
     start_time |-> event.start_time, end_time |-> event.end_time,
     repeat_type |-> event.repeat_type, repeat_interval |-> event.repeat_interval,
     repeat_days |-> event.repeat_days, repeat_until |-> event.repeat_until,
     repeat_end_type |-> event.repeat_end_type, repeat_count |-> event.repeat_count,
     created_by |-> event.created_by,
     is_repeat_instance |-> FALSE, original_start |-> None]

event_to_dict_with_timezone(event, tz) == apply_timezone_to_event(EventDict(event), tz)

\* the entry appended for one occurrence that passed the window test
\* (event.py 260-299 and 340-375); <<>> when the occurrence was deleted
InstanceEntry(event, instance_start, instance_end, tz, excs, modified_events_cache) ==
    IF ~should_include_occurrence(event, instance_start, excs) THEN <<>>
    ELSE LET modified_event == get_modified_event_for_occurrence(
                                   event, instance_start, excs, modified_events_cache)
         IN IF modified_event # <<>>
            THEN << [event_to_dict_with_timezone(modified_event[1], tz) EXCEPT
                       !.is_repeat_instance = TRUE,
                       !.original_start = event.start_time] >>
            ELSE << apply_timezone_to_event(
                       [EventDict(event) EXCEPT
                          !.start_time = instance_start,
                          !.end_time = instance_end,
                          !.is_repeat_instance = TRUE,
                          !.original_start = event.start_time], tz) >>

\* ------------------------------------------------------------------------
\* Occurrence generator
\* ------------------------------------------------------------------------

Min(a, b) == IF a <= b THEN a ELSE b

\* Python truthiness of an optional integer
Truthy(x) == x # None /\ x # 0

\* the series ends before repeat_until
RepeatEnd_exclusive(event, end_date) ==
    IF event.repeat_end_type = "date" /\ event.repeat_until # None
    THEN event.repeat_until - 1
    ELSE end_date

\* "Determine repeat end date" (event.py 197-203)
RepeatEnd(event, end_date) ==
    IF event.repeat_end_type = "date" /\ event.repeat_until # None
    THEN event.repeat_until
    ELSE end_date

\* one step of one day, week, month or year, whatever repeat_interval is
Advance_one_unit(event, t) ==
    CASE event.repeat_type = "daily"   -> AddDays(t, 1)
      [] event.repeat_type = "weekly"  -> AddDays(t, 7)
      [] event.repeat_type = "monthly" ->
            IF relativedelta THEN AddMonths(t, 1) ELSE AddDays(t, 30)
      [] event.repeat_type = "yearly"  ->
            IF relativedelta THEN AddYears(t, 1) ELSE AddDays(t, 365)
      [] OTHER -> t

\* "Move to next occurrence": one step of the rule; a repeat_type outside
\* daily/weekly/monthly/yearly has no step
Advance(event, t) ==
    CASE event.repeat_type = "daily"   -> AddDays(t, event.repeat_interval)
      [] event.repeat_type = "weekly"  -> AddDays(t, 7 * event.repeat_interval)
      [] event.repeat_type = "monthly" ->
            IF relativedelta THEN AddMonths(t, event.repeat_interval)
            ELSE AddDays(t, 30 * event.repeat_interval)
      [] event.repeat_type = "yearly"  ->
            IF relativedelta THEN AddYears(t, event.repeat_interval)
            ELSE AddDays(t, 365 * event.repeat_interval)
      [] OTHER -> t

HasStep(event) == event.repeat_type \in {"daily", "weekly", "monthly", "yearly"}

\* datetime(check_date.year, .month, .day, start.hour, start.minute, start.second)
OnDateAtTimeOf(check_date, start_time) ==
    DateOf(check_date) * MinutesPerDay + TimeOfDay(start_time)

\* the test that lets a weekday of a week cycle through to the overlay
\* (event.py 238-259)
WeekdayPasses(event, check_date, start_date, end_date) ==
    LET instance_start == OnDateAtTimeOf(check_date, event.start_time)
        instance_end   == instance_start + (event.end_time - event.start_time)
    IN /\ Weekday(check_date) \in event.repeat_days
       /\ check_date >= event.start_time
       /\ ~(/\ event.repeat_end_type = "date"
            /\ event.repeat_until # None
            /\ instance_start > event.repeat_until)
       /\ instance_start # event.start_time
       /\ instance_end >= start_date
       /\ instance_start <= end_date

\* "for day_offset in range(7)" of one week cycle
RECURSIVE WeekInstances(_, _, _, _, _, _, _, _)
WeekInstances(event, week_start, day_offset, start_date, end_date, tz, excs, cache) ==
    IF day_offset > 6 THEN <<>>
    ELSE LET check_date     == AddDays(week_start, day_offset)
             instance_start == OnDateAtTimeOf(check_date, event.start_time)
             instance_end   == instance_start + (event.end_time - event.start_time)
         IN (IF WeekdayPasses(event, check_date, start_date, end_date)
             THEN InstanceEntry(event, instance_start, instance_end, tz, excs, cache)
             ELSE <<>>)
            \o WeekInstances(event, week_start, day_offset + 1,
                             start_date, end_date, tz, excs, cache)

\* "while True" of the weekly-with-days branch (event.py 215-302)
RECURSIVE WeeklyLoop(_, _, _, _, _, _, _, _)
WeeklyLoop(event, week_number, week_cycle_count, start_date, end_date, tz, excs, cache) ==
    LET week_start      == AddDays(event.start_time, week_number * 7)
        max_week_cycles == IF event.repeat_end_type = "count"
                           THEN event.repeat_count ELSE None
    IN IF week_start > RepeatEnd(event, end_date) THEN <<>>
       ELSE IF week_number % event.repeat_interval = 0
            THEN IF max_week_cycles # None /\ week_cycle_count >= max_week_cycles
                 THEN <<>>
                 ELSE WeekInstances(event, week_start, 0,
                                    start_date, end_date, tz, excs, cache)
                      \o WeeklyLoop(event, week_number + 1, week_cycle_count + 1,
                                    start_date, end_date, tz, excs, cache)
            ELSE WeeklyLoop(event, week_number + 1, week_cycle_count,
                            start_date, end_date, tz, excs, cache)

\* the loop counting only the occurrences that intersect the window
RECURSIVE StepLoop_counting_visible(_, _, _, _, _, _, _, _)
StepLoop_counting_visible(event, current_date, occurrence_count, start_date, end_date, tz, excs, cache) ==
    IF current_date > Min(RepeatEnd(event, end_date), end_date) THEN <<>>
    ELSE IF /\ event.repeat_end_type = "count"
            /\ Truthy(event.repeat_count)
            /\ occurrence_count >= event.repeat_count
    THEN <<>>
    ELSE LET instance_end == current_date + (event.end_time - event.start_time)
             visible == instance_end >= start_date /\ current_date <= end_date
             here == IF visible
                     THEN InstanceEntry(event, current_date, instance_end,
                                        tz, excs, cache)
                     ELSE <<>>
         IN IF HasStep(event)
            THEN here \o StepLoop_counting_visible(
                             event, Advance(event, current_date),
                             occurrence_count + (IF visible THEN 1 ELSE 0),
                             start_date, end_date, tz, excs, cache)
            ELSE here

\* "while current_date <= min(repeat_end, end_date)" (event.py 327-393)
RECURSIVE StepLoop(_, _, _, _, _, _, _, _)
StepLoop(event, current_date, occurrence_count, start_date, end_date, tz, excs, cache) ==
    IF current_date > Min(RepeatEnd(event, end_date), end_date) THEN <<>>
    ELSE IF /\ event.repeat_end_type = "count"
            /\ Truthy(event.repeat_count)
            /\ occurrence_count >= event.repeat_count
    THEN <<>>
    ELSE LET instance_end == current_date + (event.end_time - event.start_time)
             here == IF instance_end >= start_date /\ current_date <= end_date
                     THEN InstanceEntry(event, current_date, instance_end,
                                        tz, excs, cache)
                     ELSE <<>>
         IN IF HasStep(event)
            THEN here \o StepLoop(event, Advance(event, current_date),
                                  occurrence_count + 1,
                                  start_date, end_date, tz, excs, cache)
            ELSE here

\* the base week counted as a cycle before the loop
generate_repeat_instances_counting_from_one(event, start_date, end_date, tz, excs, cache) ==
    IF event.repeat_type = "none" THEN <<>>
    ELSE IF event.repeat_type = "weekly" /\ event.repeat_days # {}
    THEN WeeklyLoop(event, 0, 1, start_date, end_date, tz, excs, cache)
    ELSE StepLoop(event, Advance(event, event.start_time), 0,
                  start_date, end_date, tz, excs, cache)

generate_repeat_instances(event, start_date, end_date, tz, excs, cache) ==
    IF event.repeat_type = "none" THEN <<>>
    ELSE IF event.repeat_type = "weekly" /\ event.repeat_days # {}
    THEN WeeklyLoop(event, 0, 0, start_date, end_date, tz, excs, cache)
    ELSE StepLoop(event, Advance(event, event.start_time), 0,
                  start_date, end_date, tz, excs, cache)

\* ------------------------------------------------------------------------
\* Previous occurrence (series editor, scope=future)
\* ------------------------------------------------------------------------

\* "while current < target_date: previous = current; current += step"
RECURSIVE PreviousByStep(_, _, _, _)
PreviousByStep(event, current, previous, target_date) ==
    IF current < target_date
    THEN PreviousByStep(event, Advance(event, current), current, target_date)
    ELSE previous

\* the last assignment to previous made by "for day_offset in range(7)"
PreviousInWeek(event, week_start, previous, target_date) ==
    LET Hit(day_offset) ==
            LET check_date == AddDays(week_start, day_offset)
            IN /\ Weekday(check_date) \in event.repeat_days
               /\ event.start_time <= check_date
               /\ check_date < target_date
               /\ OnDateAtTimeOf(check_date, event.start_time) < target_date
        hits == {d \in 0..6 : Hit(d)}
    IN IF hits = {} THEN previous
       ELSE LET last == CHOOSE d \in hits : \A o \in hits : o <= d
            IN OnDateAtTimeOf(AddDays(week_start, last), event.start_time)

RECURSIVE PreviousByWeek(_, _, _, _)
PreviousByWeek(event, week_number, previous, target_date) ==
    LET week_start == AddDays(event.start_time, week_number * 7)
    IN IF week_start >= target_date THEN previous
       ELSE PreviousByWeek(event, week_number + 1,
                IF week_number % event.repeat_interval = 0
                THEN PreviousInWeek(event, week_start, previous, target_date)
                ELSE previous,
                target_date)

\* the day before the target, whatever the rule
calculate_previous_occurrence_day_before(event, target_date) ==
    AddDays(target_date, 0 - 1)


calculate_previous_occurrence(event, target_date) ==
    IF event.repeat_type = "weekly" /\ event.repeat_days # {}
    THEN PreviousByWeek(event, 0, event.start_time, target_date)
    ELSE IF HasStep(event)
    THEN PreviousByStep(event, event.start_time, event.start_time, target_date)
    ELSE event.start_time

\* ------------------------------------------------------------------------
\* Event store
\* ------------------------------------------------------------------------

\* rows of the users table that are not soft-deleted; user 1 is the admin
ActiveUsers == {1, 2}

Callers == {[user_id |-> 1, role_id |-> 1], [user_id |-> 2, role_id |-> 2]}

Get(body, field, default) == IF field \in DOMAIN body THEN body[field] ELSE default

\* rows of event_exceptions that belong to an event, in table order
ExceptionsOf(excs, event_id) ==
    LET Mine(x) == x.event_id = event_id
    IN SelectSeq(excs, Mine)

\* db.add(event) + commit: the row gets the next id
InsertEvent(evs, id, row) ==
    [i \in (DOMAIN evs) \cup {id} |-> IF i = id THEN [row EXCEPT !.id = id] ELSE evs[i]]

\* db.delete(event) + commit: the row goes, its exceptions cascade (ORM
\* cascade on event_id, ON DELETE CASCADE on modified_event_id), children
\* keep living with parent_event_id set NULL
DeleteEventRow(evs, id) ==
    [i \in (DOMAIN evs) \ {id} |->
        IF evs[i].parent_event_id = id THEN [evs[i] EXCEPT !.parent_event_id = None]
        ELSE evs[i]]

DeleteExceptionsOf(excs, id) ==
    LET Keep(x) == x.event_id # id /\ x.modified_event_id # id
    IN SelectSeq(excs, Keep)

\* ------------------------------------------------------------------------
\* POST /events
\* ------------------------------------------------------------------------

validate_repeat_days(repeat_days) == \A d \in repeat_days : 0 <= d /\ d <= 6

\* the checks of create_event without the one on repeat_until
CreateStatus_without_until_check(data, caller, tz, commit_fails) ==
    LET start_time_utc == convert_user_to_utc_timezone(data.start_time, tz)
        end_time_utc   == convert_user_to_utc_timezone(data.end_time, tz)
    IN IF ~validate_repeat_days(data.repeat_days) THEN 400
       ELSE IF end_time_utc <= start_time_utc THEN 400
       ELSE IF data.repeat_end_type = "count" /\ ~Truthy(data.repeat_count) THEN 400
       ELSE IF data.user_id \notin ActiveUsers THEN 404
       ELSE IF caller.role_id # 1 /\ data.user_id # caller.user_id THEN 403
       ELSE IF commit_fails THEN 500 ELSE 201

\* the status create_event answers with, in the order of its checks
CreateStatus(data, caller, tz, commit_fails) ==
    LET start_time_utc == convert_user_to_utc_timezone(data.start_time, tz)
        end_time_utc   == convert_user_to_utc_timezone(data.end_time, tz)
    IN IF ~validate_repeat_days(data.repeat_days) THEN 400
       ELSE IF end_time_utc <= start_time_utc THEN 400
       ELSE IF /\ data.repeat_end_type = "date"
               /\ data.repeat_until # None
               /\ convert_user_to_utc_timezone(data.repeat_until, tz) <= start_time_utc
            THEN 400
       ELSE IF data.repeat_end_type = "count" /\ ~Truthy(data.repeat_count) THEN 400
       ELSE IF data.user_id \notin ActiveUsers THEN 404
       ELSE IF caller.role_id # 1 /\ data.user_id # caller.user_id THEN 403
       ELSE IF commit_fails THEN 500
       ELSE 201

\* Event(...) as create_event builds it
NewEventRow(data, caller, tz) ==
    [id |-> None, parent_event_id |-> None, user_id |-> data.user_id,
     title |-> data.title,
     start_time |-> convert_user_to_utc_timezone(data.start_time, tz),
     end_time |-> convert_user_to_utc_timezone(data.end_time, tz),
     repeat_type |-> data.repeat_type,
     repeat_interval |-> data.repeat_interval,
     repeat_days |-> data.repeat_days,
     repeat_until |-> IF data.repeat_end_type = "date" /\ data.repeat_until # None
                      THEN convert_user_to_utc_timezone(data.repeat_until, tz)
                      ELSE None,
     repeat_end_type |-> data.repeat_end_type,
     repeat_count |-> data.repeat_count,
     created_by |-> caller.user_id]

Snapshot == [events |-> events, exceptions |-> exceptions, writes |-> writes]

\* A request that commits nothing (a query, an error, a no-op) leaves the
\* store as it found it, so whatever can follow it can follow the state it
\* arrived in: behaviours are continued only from the states a committed
\* write produced.
Continuable == request.op = "none" \/ before.writes # writes

create_event(data, caller, tz, commit_fails) ==
    LET st  == CreateStatus(data, caller, tz, commit_fails)
        row == [NewEventRow(data, caller, tz) EXCEPT !.id = next_event_id]
    IN /\ next_event_id <= MaxEvents
       /\ writes < MaxWrites
       /\ request' = [op |-> "create", data |-> data, caller |-> caller, tz |-> tz]
       /\ before' = Snapshot
       /\ IF st = 201
          THEN /\ events' = InsertEvent(events, next_event_id, row)
               /\ next_event_id' = next_event_id + 1
               /\ writes' = writes + 1
               /\ response' = [status |-> 201,
                               body |-> event_to_dict_with_timezone(row, tz)]
               /\ UNCHANGED <<exceptions, next_exception_id>>
          ELSE /\ response' = [status |-> st, body |-> <<>>]
               /\ UNCHANGED <<store, writes>>
       /\ UNCHANGED relativedelta

\* ------------------------------------------------------------------------
\* PATCH /events/{id}
\* ------------------------------------------------------------------------

\* keys update_event pops before it looks at the body
ProtectedKeys == {"id", "created_by", "created_at", "updated_at", "parent_event_id"}

StripBody(body) == [f \in (DOMAIN body) \ ProtectedKeys |-> body[f]]

\* "Convert times": start_time, end_time and a set repeat_until go to UTC
ConvertBody(body, tz) ==
    [f \in DOMAIN body |->
        IF f \in {"start_time", "end_time"}
        THEN convert_user_to_utc_timezone(body[f], tz)
        ELSE IF f = "repeat_until"
        THEN (IF body[f] # None THEN convert_user_to_utc_timezone(body[f], tz)
              ELSE body[f])
        ELSE body[f]]

\* names of models.event.RepeatTypeEnum and RepeatEndTypeEnum
RepeatTypeNames == {"none", "daily", "weekly", "monthly", "yearly", "custom"}
RepeatEndTypeNames == {"never", "date", "count"}

\* the 400 checks made on a non-empty body before any write (event.py 657-705);
\* body is the converted body
BodyIsValid(event, body) ==
    /\ ("repeat_days" \in DOMAIN body => validate_repeat_days(body.repeat_days))
    /\ ("repeat_type" \in DOMAIN body => body.repeat_type \in RepeatTypeNames)
    /\ ("repeat_end_type" \in DOMAIN body => body.repeat_end_type \in RepeatEndTypeNames)
    /\ (("start_time" \in DOMAIN body \/ "end_time" \in DOMAIN body) =>
            Get(body, "end_time", event.end_time)
                > Get(body, "start_time", event.start_time))

\* columns of the events table that setattr can reach
EventColumns == {"user_id", "title", "start_time", "end_time", "repeat_type",
                 "repeat_interval", "repeat_days", "repeat_until",
                 "repeat_end_type", "repeat_count"}

\* scope=all: "for field, value in request_body.items(): setattr(event, field, value)"
PatchAll(event, body) ==
    [f \in DOMAIN event |->
        IF f \in (DOMAIN body) \cap EventColumns THEN body[f] ELSE event[f]]

\* scope=this: the standalone replacement Event (event.py 725-750)
ReplacementRow(event, body, occurrence_date_utc, caller) ==
    LET duration == event.end_time - event.start_time
    IN [id |-> None, parent_event_id |-> None, user_id |-> event.user_id,
        title |-> Get(body, "title", event.title),
        start_time |-> Get(body, "start_time", occurrence_date_utc),
        end_time |-> Get(body, "end_time", occurrence_date_utc + duration),
        repeat_type |-> "none", repeat_interval |-> 1, repeat_days |-> {},
        repeat_until |-> None, repeat_end_type |-> "never", repeat_count |-> None,
        created_by |-> caller.user_id]

\* scope=future: the original Event with its series ended (event.py 778-781, 899-902)
TruncatedRow(event, occurrence_date_utc) ==
    [event EXCEPT
        !.repeat_until = calculate_previous_occurrence(event, occurrence_date_utc),
        !.repeat_end_type = "date"]

\* the continuation starting where the original starts
ContinuationRow_at_base_start(event, body, occurrence_date_utc, caller) ==
    LET truncated == TruncatedRow(event, occurrence_date_utc)
        duration  == truncated.end_time - truncated.start_time
    IN [id |-> None, parent_event_id |-> event.id, user_id |-> event.user_id,
        title |-> Get(body, "title", truncated.title),
        start_time |-> Get(body, "start_time", truncated.start_time),
        end_time |-> Get(body, "end_time", truncated.start_time + duration),
        repeat_type |-> Get(body, "repeat_type", truncated.repeat_type),
        repeat_interval |-> Get(body, "repeat_interval", truncated.repeat_interval),
        repeat_days |-> Get(body, "repeat_days", truncated.repeat_days),
        repeat_until |-> Get(body, "repeat_until", truncated.repeat_until),
        repeat_end_type |-> Get(body, "repeat_end_type", truncated.repeat_end_type),
        repeat_count |-> Get(body, "repeat_count", truncated.repeat_count),
        created_by |-> caller.user_id]

\* scope=future: the continuation Event, built from the body and from the
\* original Event as it is after the truncation (event.py 783-808)
ContinuationRow(event, body, occurrence_date_utc, caller) ==
    LET truncated == TruncatedRow(event, occurrence_date_utc)
        duration  == truncated.end_time - truncated.start_time
    IN [id |-> None, parent_event_id |-> event.id, user_id |-> event.user_id,
        title |-> Get(body, "title", truncated.title),
        start_time |-> Get(body, "start_time", occurrence_date_utc),
        end_time |-> Get(body, "end_time", occurrence_date_utc + duration),
        repeat_type |-> Get(body, "repeat_type", truncated.repeat_type),
        repeat_interval |-> Get(body, "repeat_interval", truncated.repeat_interval),
        repeat_days |-> Get(body, "repeat_days", truncated.repeat_days),
        repeat_until |-> Get(body, "repeat_until", truncated.repeat_until),
        repeat_end_type |-> Get(body, "repeat_end_type", truncated.repeat_end_type),
        repeat_count |-> Get(body, "repeat_count", truncated.repeat_count),
        created_by |-> caller.user_id]

\* the exception keyed by the day after the occurrence
ModifiedException_next_day(event, occurrence_date_utc, modified_event_id) ==
    [id |-> next_exception_id, event_id |-> event.id,
     exception_date |-> DateOf(occurrence_date_utc) + 1,
     exception_type |-> "modified", modified_event_id |-> modified_event_id]

ModifiedException(event, occurrence_date_utc, modified_event_id) ==
    [id |-> next_exception_id, event_id |-> event.id,
     exception_date |-> DateOf(occurrence_date_utc),
     exception_type |-> "modified", modified_event_id |-> modified_event_id]

DeletedException(event, occurrence_date_utc) ==
    [id |-> next_exception_id, event_id |-> event.id,
     exception_date |-> DateOf(occurrence_date_utc),
     exception_type |-> "deleted", modified_event_id |-> None]

\* what the session of update_event holds when db.commit() is called: the
\* rows the scope branch has set, added and flushed, none of them committed
PendingWrites(event, body, scope, occurrence_date_utc, caller) ==
    IF event.repeat_type = "none" \/ scope = "all"
    THEN [events |-> [events EXCEPT ![event.id] = PatchAll(event, body)],
          exceptions |-> exceptions]
    ELSE IF scope = "this"
    THEN [events |-> InsertEvent(events, next_event_id,
                        ReplacementRow(event, body, occurrence_date_utc, caller)),
          exceptions |-> Append(exceptions,
                            ModifiedException(event, occurrence_date_utc,
                                              next_event_id))]
    ELSE [events |-> InsertEvent(
                        [events EXCEPT ![event.id] =
                            TruncatedRow(event, occurrence_date_utc)],
                        next_event_id,
                        ContinuationRow(event, body, occurrence_date_utc, caller)),
          exceptions |-> exceptions]

\* a rollback that keeps the Event rows the session had written
rollback_keeps_events(committed, pending) ==
    [events |-> pending.events, exceptions |-> committed.exceptions]

\* db.rollback() after a write or the commit raised: the transaction is
\* dropped and the store is what was last committed
rollback(committed, pending) == committed

\* which branch of update_event answers: an error status, "noop" (the empty
\* body and the unrecognised scope, both answered 200 with the Event as it is),
\* or the scope that is applied
UpdateOutcome(event_id, raw_body, scope, occurrence_date, caller, tz, commit_fails) ==
    IF event_id \notin DOMAIN events THEN "404"
    ELSE LET event == events[event_id]
             body  == ConvertBody(StripBody(raw_body), tz)
         IN IF caller.role_id # 1 /\ event.user_id # caller.user_id THEN "403"
            ELSE IF DOMAIN body = {} THEN "noop"
            ELSE IF ~BodyIsValid(event, body) THEN "400"
            ELSE IF event.repeat_type = "none" \/ scope = "all"
                 THEN (IF commit_fails THEN "500" ELSE "all")
            ELSE IF scope \in {"this", "future"}
                 THEN (IF occurrence_date = None THEN "400"
                       ELSE IF commit_fails THEN "500" ELSE scope)
            ELSE "noop"

update_event(event_id, raw_body, scope, occurrence_date, caller, tz, commit_fails) ==
    LET outcome == UpdateOutcome(event_id, raw_body, scope, occurrence_date,
                                 caller, tz, commit_fails)
        event   == events[event_id]
        body    == ConvertBody(StripBody(raw_body), tz)
        occurrence_date_utc == convert_user_to_utc_timezone(occurrence_date, tz)
    IN /\ request' = [op |-> "update", event_id |-> event_id, body |-> raw_body,
                      scope |-> scope, occurrence_date |-> occurrence_date,
                      caller |-> caller, tz |-> tz]
       /\ before' = Snapshot
       /\ UNCHANGED relativedelta
       /\ CASE outcome \in {"400", "403", "404"} ->
                 /\ response' = [status |-> (CASE outcome = "400" -> 400
                                               [] outcome = "403" -> 403
                                               [] OTHER -> 404),
                                 body |-> <<>>]
                 /\ UNCHANGED <<store, writes>>
            [] outcome = "noop" ->
                 /\ response' = [status |-> 200,
                                 body |-> event_to_dict_with_timezone(event, tz)]
                 /\ UNCHANGED <<store, writes>>
            [] outcome \in {"all", "this", "future", "500"} ->
                 \E pending \in {PendingWrites(event, body, scope,
                                                occurrence_date_utc, caller)} :
                 \E kept \in {IF outcome = "500"
                              THEN rollback([events |-> events,
                                             exceptions |-> exceptions], pending)
                              ELSE pending} :
                    /\ outcome \in {"this", "future"} => next_event_id <= MaxEvents
                    /\ outcome = "this" => next_exception_id <= MaxExceptions
                    /\ events' = kept.events
                    /\ exceptions' = kept.exceptions
                    /\ next_event_id' = IF outcome \in {"this", "future"}
                                        THEN next_event_id + 1 ELSE next_event_id
                    /\ next_exception_id' = IF outcome = "this"
                                            THEN next_exception_id + 1
                                            ELSE next_exception_id
                    /\ writes' = IF outcome = "500" THEN writes ELSE writes + 1
                    /\ response' =
                          IF outcome = "500" THEN [status |-> 500, body |-> <<>>]
                          ELSE [status |-> 200,
                                body |-> event_to_dict_with_timezone(
                                             kept.events[IF outcome = "all"
                                                         THEN event_id
                                                         ELSE next_event_id], tz)]

\* ------------------------------------------------------------------------
\* DELETE /events/{id}
\* ------------------------------------------------------------------------

\* which branch of delete_event answers; "noop" is the unrecognised scope,
\* which falls out of the handler and is answered 200 with no body
DeleteOutcome(event_id, scope, occurrence_date, caller, commit_fails) ==
    IF event_id \notin DOMAIN events THEN "404"
    ELSE LET event == events[event_id]
         IN IF caller.role_id # 1 /\ event.user_id # caller.user_id THEN "403"
            ELSE IF event.repeat_type = "none" \/ scope = "all"
                 THEN (IF commit_fails THEN "500" ELSE "all")
            ELSE IF scope \in {"this", "future"}
                 THEN (IF occurrence_date = None THEN "400"
                       ELSE IF commit_fails THEN "500" ELSE scope)
            ELSE "noop"

delete_event(event_id, scope, occurrence_date, caller, tz, commit_fails) ==
    LET outcome == DeleteOutcome(event_id, scope, occurrence_date, caller, commit_fails)
        event   == events[event_id]
        occurrence_date_utc == convert_user_to_utc_timezone(occurrence_date, tz)
    IN /\ request' = [op |-> "delete", event_id |-> event_id,
                      scope |-> scope, occurrence_date |-> occurrence_date,
                      caller |-> caller, tz |-> tz]
       /\ before' = Snapshot
       /\ UNCHANGED relativedelta
       /\ CASE outcome \in {"400", "403", "404", "500"} ->
                 /\ response' = [status |-> (CASE outcome = "400" -> 400
                                               [] outcome = "403" -> 403
                                               [] outcome = "404" -> 404
                                               [] OTHER -> 500),
                                 body |-> <<>>]
                 /\ UNCHANGED <<store, writes>>
            [] outcome = "noop" ->
                 /\ response' = [status |-> 200, body |-> <<>>]
                 /\ UNCHANGED <<store, writes>>
            [] outcome = "all" ->
                 /\ writes < MaxWrites
                 /\ events' = DeleteEventRow(events, event_id)
                 /\ exceptions' = DeleteExceptionsOf(exceptions, event_id)
                 /\ writes' = writes + 1
                 /\ response' = [status |-> 200, body |-> <<>>]
                 /\ UNCHANGED <<next_event_id, next_exception_id>>
            [] outcome = "this" ->
                 /\ writes < MaxWrites
                 /\ next_exception_id <= MaxExceptions
                 /\ exceptions' = Append(exceptions,
                                         DeletedException(event, occurrence_date_utc))
                 /\ next_exception_id' = next_exception_id + 1
                 /\ writes' = writes + 1
                 /\ response' = [status |-> 200, body |-> <<>>]
                 /\ UNCHANGED <<events, next_event_id>>
            [] outcome = "future" ->
                 /\ writes < MaxWrites
                 /\ events' = [events EXCEPT ![event_id] =
                                  TruncatedRow(event, occurrence_date_utc)]
                 /\ writes' = writes + 1
                 /\ response' = [status |-> 200, body |-> <<>>]
                 /\ UNCHANGED <<exceptions, next_event_id, next_exception_id>>

\* ------------------------------------------------------------------------
\* GET /events
\* ------------------------------------------------------------------------

\* the rows the query of list_events selects (event.py 513-534)
ListFilter(event, user_filter, start_date_utc, end_date_utc) ==
    /\ event.user_id = user_filter
    /\ IF start_date_utc # None /\ end_date_utc # None
       THEN /\ event.start_time <= end_date_utc
            /\ \/ event.repeat_type = "none"
               \/ event.repeat_end_type = "never"
               \/ event.repeat_until = None
               \/ event.repeat_until >= start_date_utc
       ELSE IF start_date_utc # None THEN event.start_time >= start_date_utc
       ELSE IF end_date_utc # None THEN event.end_time <= end_date_utc
       ELSE TRUE

\* a set of ids as a sequence
RECURSIVE SetToSeq(_)
SetToSeq(S) ==
    IF S = {} THEN <<>>
    ELSE LET x == CHOOSE y \in S : \A z \in S : y <= z
         IN <<x>> \o SetToSeq(S \ {x})

\* "order_by(Event.start_time)", rows of equal start_time in id order
OrderByStartTime(ids) ==
    LET Before(a, b) == \/ events[a].start_time < events[b].start_time
                        \/ /\ events[a].start_time = events[b].start_time
                           /\ a < b
    IN SortSeq(SetToSeq(ids), Before)

\* modified_events_cache: every Event some exception of the listed events links to
ModifiedEventsCache(excs) ==
    LET ids == {excs[i].modified_event_id : i \in 1..Len(excs)} \cap DOMAIN events
    IN [i \in ids |-> events[i]]

\* "for event in events": the Event itself, then its generated instances
RECURSIVE ListEntries(_, _, _, _, _, _)
ListEntries(order, start_date_utc, end_date_utc, include_repeating, tz, listed_excs) ==
    IF order = <<>> THEN <<>>
    ELSE LET event == events[Head(order)]
         IN << event_to_dict_with_timezone(event, tz) >>
            \o (IF /\ include_repeating
                   /\ start_date_utc # None
                   /\ end_date_utc # None
                   /\ event.repeat_type # "none"
                THEN generate_repeat_instances(
                         event, start_date_utc, end_date_utc, tz,
                         ExceptionsOf(listed_excs, event.id),
                         ModifiedEventsCache(listed_excs))
                ELSE <<>>)
            \o ListEntries(Tail(order), start_date_utc, end_date_utc,
                           include_repeating, tz, listed_excs)

ListResult(caller, user_id, start_date, end_date, include_repeating, tz) ==
    LET start_date_utc == IF start_date # None
                          THEN convert_user_to_utc_timezone(start_date, tz) ELSE None
        end_date_utc   == IF end_date # None
                          THEN convert_user_to_utc_timezone(end_date, tz) ELSE None
        user_filter    == IF caller.role_id # 1 THEN caller.user_id
                          ELSE IF user_id # None THEN user_id ELSE caller.user_id
        ids == {i \in DOMAIN events :
                   ListFilter(events[i], user_filter, start_date_utc, end_date_utc)}
        InList(x) == x.event_id \in ids
    IN ListEntries(OrderByStartTime(ids), start_date_utc, end_date_utc,
                   include_repeating, tz, SelectSeq(exceptions, InList))

list_events(caller, user_id, start_date, end_date, include_repeating, tz) ==
    /\ request' = [op |-> "list", caller |-> caller, user_id |-> user_id,
                   start_date |-> start_date, end_date |-> end_date,
                   include_repeating |-> include_repeating, tz |-> tz]
    /\ response' = [status |-> 200,
                    body |-> ListResult(caller, user_id, start_date, end_date,
                                        include_repeating, tz)]
    /\ before' = Snapshot
    /\ UNCHANGED <<store, writes, relativedelta>>

\* generate_repeat_instances applied to a stored Event, its exceptions and
\* the preloaded replacement Events, as list_events calls it
generate(event_id, start_date_utc, end_date_utc, tz) ==
    /\ event_id \in DOMAIN events
    /\ request' = [op |-> "generate", event_id |-> event_id,
                   start_date |-> start_date_utc, end_date |-> end_date_utc,
                   tz |-> tz]
    /\ response' = [status |-> 200,
                    body |-> generate_repeat_instances(
                                 events[event_id], start_date_utc, end_date_utc, tz,
                                 ExceptionsOf(exceptions, event_id),
                                 ModifiedEventsCache(exceptions))]
    /\ before' = Snapshot
    /\ UNCHANGED <<store, writes, relativedelta>>

\* ------------------------------------------------------------------------
\* Inputs
\* ------------------------------------------------------------------------

Admin == [user_id |-> 1, role_id |-> 1]
Client == [user_id |-> 2, role_id |-> 2]

\* X-Timezone-Offset: absent, UTC+2, UTC-5
TzOffsets == {None, -120, 300}

Intervals == {1, 2}

\* recurrence rules: every stepping type, and weekly on Mon/Wed/Fri and on Thu
Rules ==
    {[repeat_type |-> ty, repeat_interval |-> n, repeat_days |-> {}] :
        ty \in {"daily", "weekly", "monthly", "yearly"}, n \in Intervals}
    \cup {[repeat_type |-> "weekly", repeat_interval |-> n, repeat_days |-> ds] :
        n \in Intervals, ds \in {{0, 2, 4}, {3}}}

\* Fri 2024-03-01 08:00, Wed 2024-01-31 08:00, Thu 2024-02-29 23:30
StartTimes == {At(2024, 3, 1, 8, 0), At(2024, 1, 31, 8, 0), At(2024, 2, 29, 23, 30)}

RECURSIVE AdvanceN(_, _, _)
AdvanceN(event, t, n) == IF n = 0 THEN t ELSE AdvanceN(event, Advance(event, t), n - 1)

\* the end of the stretch of the series that requests reach
Horizon(event) ==
    IF event.repeat_type = "weekly"
    THEN AddDays(event.start_time, 7 * event.repeat_interval * MaxSteps)
    ELSE AdvanceN(event, event.start_time, MaxSteps)

NoExceptions == <<>>
NoCache == <<>>

StartsOf(entries) == [i \in 1..Len(entries) |-> entries[i].start_time]

\* starts of the base occurrence and of the occurrences the rule generates up
\* to the horizon, exceptions aside
OccurrenceStarts(event) ==
    <<event.start_time>>
    \o StartsOf(generate_repeat_instances(event, event.start_time, Horizon(event),
                                          None, NoExceptions, NoCache))

Range(seq) == {seq[i] : i \in 1..Len(seq)}

\* a never-ending Event of user 2 written by the admin
PlainEvent(rule, start_time) ==
    [id |-> None, parent_event_id |-> None, user_id |-> 2, title |-> "A",
     start_time |-> start_time, end_time |-> start_time + 60,
     repeat_type |-> rule.repeat_type, repeat_interval |-> rule.repeat_interval,
     repeat_days |-> rule.repeat_days, repeat_until |-> None,
     repeat_end_type |-> "never", repeat_count |-> None, created_by |-> 1]

\* the ways a series is ended: never, after 2 or 3, at the start of its third
\* occurrence, one minute earlier or later
Endings(third_start) ==
    {[repeat_end_type |-> "never", repeat_until |-> None, repeat_count |-> None]}
    \cup {[repeat_end_type |-> "count", repeat_until |-> None, repeat_count |-> n] :
             n \in {2, 3}}
    \cup {[repeat_end_type |-> "date", repeat_until |-> third_start + d,
           repeat_count |-> None] : d \in {0 - 1, 0, 1}}

WithEnding(plain, ending) ==
    [plain EXCEPT !.repeat_end_type = ending.repeat_end_type,
                  !.repeat_until = ending.repeat_until,
                  !.repeat_count = ending.repeat_count]

\* query windows around the occurrences of an Event: from just before the
\* base start, or from the end of an occurrence and one minute after it, to
\* the start of an occurrence and one minute before it
Windows(event) ==
    LET duration == event.end_time - event.start_time
        froms == {event.start_time - 1}
                 \cup {AdvanceN(event, event.start_time, k) + d :
                          k \in 0..MaxSteps, d \in {duration, duration + 1}}
        tos   == {AdvanceN(event, event.start_time, k) - d :
                          k \in 0..(MaxSteps + 1), d \in {0, 1}}
    IN {w \in froms \X tos : w[1] <= w[2]}

\* Events as the store holds them: a rule, a start and an ending, and the
\* daily ones also with repeat_type patched to "custom"
StoredEvent(rule, start_time, ending, custom) ==
    [WithEnding(PlainEvent(rule, start_time), ending) EXCEPT
        !.id = 1,
        !.repeat_type = IF custom THEN "custom" ELSE @]

\* what scope=this requests leave behind for an Event: nothing, its second
\* occurrence deleted, its third replaced by Event 2, both, or the second
\* both replaced and deleted
OverlayKinds == {"none", "deleted", "modified", "both", "clash", "moved"}

\* occ: the starts of the occurrences of the Event
OverlayTarget(occ, kind) ==
    IF kind \in {"modified", "both"} /\ Len(occ) >= 3 THEN occ[3] ELSE occ[2]

OverlayReplacement(event, t) ==
    [ReplacementRow(event, [title |-> "B", start_time |-> t + 30,
                            end_time |-> t + 120], t, Admin) EXCEPT !.id = 2]

\* the replacement of a scope=this update that moves the occurrence occ[2]
\* to half an hour after the occurrence that follows it
OverlayMoved(event, occ) ==
    [ReplacementRow(event, [title |-> "B",
                            start_time |-> occ[Min(3, Len(occ))] + 30,
                            end_time |-> occ[Min(3, Len(occ))] + 120],
                    occ[2], Admin) EXCEPT !.id = 2]

OverlayExceptions(event_id, occ, kind) ==
    LET del == [id |-> 1, event_id |-> event_id, exception_date |-> DateOf(occ[2]),
                exception_type |-> "deleted", modified_event_id |-> None]
        mod == [id |-> 2, event_id |-> event_id,
                exception_date |-> DateOf(OverlayTarget(occ, kind)),
                exception_type |-> "modified", modified_event_id |-> 2]
    IN CASE kind = "none"     -> <<>>
         [] kind = "deleted"  -> <<del>>
         [] kind = "modified" -> <<mod>>
         [] kind = "both"     -> <<del, mod>>
         [] kind = "clash"    -> <<mod, del>>
         [] kind = "moved"    -> <<mod>>

\* ------------------------------------------------------------------------
\* Specification of the generator: a stored Event with its overlay, queried
\* ------------------------------------------------------------------------

InitGen ==
    /\ relativedelta \in BOOLEAN
    /\ \E rule \in Rules, start_time \in StartTimes, custom \in BOOLEAN,
          kind \in OverlayKinds :
        \E plain_occ \in {OccurrenceStarts(PlainEvent(rule, start_time))} :
        \E ending \in Endings(plain_occ[3]) :
        \E event \in {StoredEvent(rule, start_time, ending, custom)} :
        \E occ \in {OccurrenceStarts(event)} :
          /\ custom => (rule.repeat_type = "daily" /\ rule.repeat_interval = 1)
          /\ Len(occ) >= 2
          /\ events = CASE kind \in {"modified", "both", "clash"} ->
                             (1 :> event)
                             @@ (2 :> OverlayReplacement(event, OverlayTarget(occ, kind)))
                        [] kind = "moved" ->
                             (1 :> event) @@ (2 :> OverlayMoved(event, occ))
                        [] OTHER -> (1 :> event)
          /\ exceptions = OverlayExceptions(1, occ, kind)
    /\ next_event_id = 3
    /\ next_exception_id = 3
    /\ request = [op |-> "none"]
    /\ response = [status |-> 0, body |-> <<>>]
    /\ before = [events |-> <<>>, exceptions |-> <<>>, writes |-> 0]
    /\ writes = 0

Generate ==
    /\ Continuable
    /\ \E w \in Windows(events[1]), tz \in TzOffsets : generate(1, w[1], w[2], tz)

NextGen == Generate

GenSpec == InitGen /\ [][NextGen]_vars

\* ------------------------------------------------------------------------
\* Specification of the API: requests against an initially empty store
\* ------------------------------------------------------------------------

Init ==
    /\ relativedelta \in BOOLEAN
    /\ events = <<>>
    /\ exceptions = <<>>
    /\ next_event_id = 1
    /\ next_exception_id = 1
    /\ request = [op |-> "none"]
    /\ response = [status |-> 0, body |-> <<>>]
    /\ before = [events |-> <<>>, exceptions |-> <<>>, writes |-> 0]
    /\ writes = 0

\* write requests are made while fewer than MaxWrites writes are committed
Writable == Continuable /\ writes < MaxWrites

NoRule == [repeat_type |-> "none", repeat_interval |-> 1, repeat_days |-> {}]

\* Wed 2024-01-31 08:00 and Thu 2024-02-29 23:30, local time
LocalStartTimes == {At(2024, 1, 31, 8, 0), At(2024, 2, 29, 23, 30)}

\* the body of POST /events
EventCreate(user_id, rule, start_time, end_time, ending) ==
    [user_id |-> user_id, title |-> "A",
     start_time |-> start_time, end_time |-> end_time,
     repeat_type |-> rule.repeat_type, repeat_interval |-> rule.repeat_interval,
     repeat_days |-> rule.repeat_days, repeat_until |-> ending.repeat_until,
     repeat_end_type |-> ending.repeat_end_type,
     repeat_count |-> ending.repeat_count]

Never == [repeat_end_type |-> "never", repeat_until |-> None, repeat_count |-> None]

\* well-formed bodies: every rule and start, ended never or after 3, and
\* the rules of interval 1 ended on the start of their third occurrence
CreateBodies ==
    UNION {
      {EventCreate(2, rule, start_time, start_time + 60, ending) :
          ending \in {e \in Endings(OccurrenceStarts(PlainEvent(rule, start_time))[3]) :
                         \/ e.repeat_end_type = "never"
                         \/ e.repeat_count = 3
                         \/ /\ rule.repeat_interval = 1
                            /\ e.repeat_until =
                                  OccurrenceStarts(PlainEvent(rule, start_time))[3]}} :
      rule \in Rules, start_time \in LocalStartTimes}
    \cup {EventCreate(2, NoRule, start_time, start_time + 60, Never) :
             start_time \in LocalStartTimes}

Daily == [repeat_type |-> "daily", repeat_interval |-> 1, repeat_days |-> {}]

\* a repeat_count below 1 (None is -1)
NegativeCount == -2

\* bodies create_event has to turn down, bodies for another owner, and
\* bodies whose repeat_until, repeat_interval or repeat_count is out of place
OddCreateBodies ==
    LET t == At(2024, 1, 31, 8, 0)
    IN {EventCreate(3, Daily, t, t + 60, Never),
        EventCreate(1, Daily, t, t + 60, Never),
        EventCreate(2, Daily, t, t + 60, Never),
        EventCreate(2, Daily, t, t, Never),
        EventCreate(2, Daily, t, t + 60,
                    [repeat_end_type |-> "date", repeat_until |-> t,
                     repeat_count |-> None]),
        EventCreate(2, Daily, t, t + 60,
                    [repeat_end_type |-> "count", repeat_until |-> None,
                     repeat_count |-> None]),
        EventCreate(2, [Daily EXCEPT !.repeat_type = "weekly", !.repeat_days = {7}],
                    t, t + 60, Never),
        EventCreate(2, Daily, t, t + 60,
                    [repeat_end_type |-> "never", repeat_until |-> t,
                     repeat_count |-> None]),
        EventCreate(2, [NoRule EXCEPT !.repeat_interval = 0], t, t + 60, Never),
        EventCreate(2, Daily, t, t + 60,
                    [repeat_end_type |-> "count", repeat_until |-> None,
                     repeat_count |-> NegativeCount])}

\* a request to POST /events
CreateRequest(data, caller, tz, commit_fails) ==
    [data |-> data, caller |-> caller, tz |-> tz, commit_fails |-> commit_fails]

\* Without dateutil only the monthly and yearly rules step differently, so
\* the other rules are created with it. The first Event of a store is any of
\* the well-formed bodies; the offset header goes with the daily ones. The
\* odd bodies come from either caller, and their commit may fail.
CreateRequests ==
    {r \in {CreateRequest(data, Admin, tz, FALSE) :
               data \in CreateBodies, tz \in {None, -120}} :
        /\ events = <<>>
        /\ IF r.tz = None
           THEN relativedelta \/ r.data.repeat_type \in {"monthly", "yearly"}
           ELSE relativedelta /\ r.data.repeat_type = "daily"}
    \cup {r \in {CreateRequest(data, caller, None, commit_fails) :
                    data \in OddCreateBodies, caller \in Callers,
                    commit_fails \in BOOLEAN} :
             relativedelta}

Create ==
    /\ Writable
    /\ \E r \in CreateRequests :
          create_event(r.data, r.caller, r.tz, r.commit_fails)

\* the scope field of a request; "other" is any unrecognised value
Scopes == {"all", "this", "future", "other"}

\* the occurrence_date values sent for an Event: none, or the local time of
\* one of its first MaxSteps occurrences, the base occurrence included
OccurrenceDates(event, tz) ==
    LET occ == OccurrenceStarts(event)
    IN {None} \cup {convert_utc_to_user_timezone(occ[i], tz) :
                       i \in 1..Min(Len(occ), MaxSteps)}

\* bodies of PATCH; anchor is the occurrence_date, or the local start of the
\* Event when there is none
UpdateBodies(anchor) ==
    { <<>>,
      [title |-> "B"],
      [start_time |-> anchor + 30, end_time |-> anchor + 120],
      [end_time |-> anchor],
      [repeat_type |-> "custom"],
      [repeat_end_type |-> "never", repeat_until |-> None],
      [user_id |-> 1, created_by |-> 2, title |-> "B"] }

Anchor(event, occurrence_date, tz) ==
    IF occurrence_date # None THEN occurrence_date
    ELSE convert_utc_to_user_timezone(event.start_time, tz)

\* a request to PATCH or DELETE /events/{event_id}; DELETE has no body
EditRequest(event_id, body, scope, occurrence_date, caller, tz, commit_fails) ==
    [event_id |-> event_id, body |-> body, scope |-> scope,
     occurrence_date |-> occurrence_date, caller |-> caller, tz |-> tz,
     commit_fails |-> commit_fails]

\* the scopes and occurrence_date values sent for an Event under an offset:
\* scope=all and an unrecognised scope do not read occurrence_date, and the
\* offset header goes with the scopes that convert it
ScopedDates(event, tz) ==
    LET dates == OccurrenceDates(event, tz)
    IN {sd \in Scopes \X dates :
           IF tz = None
           THEN sd[1] \in {"this", "future"} \/ sd[2] = None
           ELSE sd[1] \in {"this", "future"} /\ sd[2] # None}

\* the admin's requests on the stored Events: every scope and occurrence
\* with every body, and under the offset header an empty and a title body
AdminEdits ==
    UNION {UNION {UNION {
        {EditRequest(event_id, body, sd[1], sd[2], Admin, tz, FALSE) :
            body \in IF tz = None
                     THEN UpdateBodies(Anchor(events[event_id], sd[2], tz))
                     ELSE {<<>>, [title |-> "B"]}} :
        sd \in ScopedDates(events[event_id], tz)} :
        tz \in {None, -120}} :
        event_id \in DOMAIN events}

\* requests of either caller, committed or not, and requests for an Event
\* that does not exist
CallerEdits ==
    {EditRequest(event_id, [title |-> "B"], scope, events[event_id].start_time,
                 caller, None, commit_fails) :
        event_id \in DOMAIN events, scope \in Scopes, caller \in Callers,
        commit_fails \in BOOLEAN}
    \cup {EditRequest(next_event_id, [title |-> "B"], scope, None, caller, None, FALSE) :
             scope \in Scopes, caller \in Callers}

\* bodies update_event has to turn down
BogusEdits ==
    {EditRequest(event_id, body, scope, events[event_id].start_time,
                 Admin, None, FALSE) :
        event_id \in DOMAIN events, scope \in {"all", "future"},
        body \in {[repeat_type |-> "bogus"], [repeat_end_type |-> "bogus"],
                  [repeat_days |-> {7}]}}

Update ==
    /\ Writable
    /\ \E r \in AdminEdits \cup CallerEdits \cup BogusEdits :
          update_event(r.event_id, r.body, r.scope, r.occurrence_date,
                       r.caller, r.tz, r.commit_fails)

\* an occurrence_date two steps after the last occurrence of the Event in
\* the stretch requests reach
LateDate(event) ==
    LET occ == OccurrenceStarts(event)
    IN Advance(event, Advance(event, occ[Len(occ)]))

\* DELETE with scope=future for a date after the last occurrence
LateDeletes ==
    {EditRequest(event_id, <<>>, "future", LateDate(events[event_id]),
                 Admin, None, FALSE) :
        event_id \in {i \in DOMAIN events : HasStep(events[i])}}

Delete ==
    /\ Writable
    /\ \E r \in {e \in AdminEdits : e.body = <<>>} \cup CallerEdits \cup LateDeletes :
          delete_event(r.event_id, r.scope, r.occurrence_date,
                       r.caller, r.tz, r.commit_fails)

\* query windows of GET /events: the stretch requests reach of the stored
\* repeating Event whose horizon is nearest, whole, from its second step on
\* and from one minute into that occurrence; with no such Event, the span of
\* any stored Event
ListWindows ==
    LET stepping == {i \in DOMAIN events : HasStep(events[i])}
    IN IF stepping = {}
       THEN {<<events[i].start_time - 1, events[i].end_time>> : i \in DOMAIN events}
       ELSE LET near == events[CHOOSE i \in stepping : \A j \in stepping :
                                  Horizon(events[i]) <= Horizon(events[j])]
            IN {<<from, Horizon(near)>> :
                   from \in UNION {{near.start_time - 1, second, second + 1} :
                                     second \in {AdvanceN(near, near.start_time, 2)}}}

FullWindows == {w \in ListWindows : \A v \in ListWindows : w[1] <= v[1]}

\* a request to GET /events
ListRequest(caller, user_id, start_date, end_date, include_repeating, tz) ==
    [caller |-> caller, user_id |-> user_id, start_date |-> start_date,
     end_date |-> end_date, include_repeating |-> include_repeating, tz |-> tz]

\* the client's listings of every window, with and without the offset
\* header; and of the first store only, the admin's listings, the listings
\* with a date missing and the listing without instances
ListRequests ==
    {ListRequest(Client, None, convert_utc_to_user_timezone(w[1], tz),
                 convert_utc_to_user_timezone(w[2], tz), TRUE, tz) :
        w \in ListWindows, tz \in {None, -120}}
    \cup {r \in {ListRequest(Admin, user_id, w[1], w[2], TRUE, None) :
                    w \in FullWindows, user_id \in {None, 2}}
               \cup {ListRequest(Client, None, given[1], given[2], TRUE, None) :
                        given \in UNION {{<<w[1], None>>, <<None, w[2]>>,
                                          <<None, None>>} : w \in FullWindows}}
               \cup {ListRequest(Client, None, w[1], w[2], FALSE, None) :
                        w \in FullWindows} :
             before.writes = 0}

List ==
    /\ Continuable
    /\ \E r \in ListRequests :
          list_events(r.caller, r.user_id, r.start_date, r.end_date,
                      r.include_repeating, r.tz)

Next == Create \/ Update \/ Delete \/ List

Spec == Init /\ [][Next]_vars

\* ------------------------------------------------------------------------
\* Properties
\* ------------------------------------------------------------------------

Entries == {response.body[i] : i \in 1..Len(response.body)}

\* an entry of a listing that the generator computed from the rule of a
\* stored Event (a substituted entry carries the replacement's id and its
\* repeat_type "none")
ComputedFromRule(x) ==
    /\ x.is_repeat_instance
    /\ x.id \in DOMAIN events
    /\ x.repeat_type # "none"

\* C1: no generated instance of a repeating Event starts at the start of the
\* base Event: the base occurrence is listed as the base Event only.
C1_NoBaseOccurrenceInstance ==
    request.op \in {"list", "generate"} =>
        \A x \in Entries :
            ComputedFromRule(x) =>
                x.start_time # convert_utc_to_user_timezone(
                                   events[x.id].start_time, request.tz)

\* the last request is a PATCH or DELETE with scope=future on a repeating
\* Event, carrying an occurrence_date, answered 200
FutureRequest ==
    /\ request.op \in {"update", "delete"}
    /\ request.scope = "future"
    /\ request.occurrence_date # None
    /\ response.status = 200
    /\ request.event_id \in DOMAIN before.events
    /\ before.events[request.event_id].repeat_type # "none"

\* a PATCH whose body holds an updatable field
SuppliesField == DOMAIN StripBody(request.body) # {}

OccurrenceDateUtc == convert_user_to_utc_timezone(request.occurrence_date, request.tz)

Original == before.events[request.event_id]

\* starts of the occurrences of an Event from its base start up to an
\* instant, as the generator lists them, exceptions aside
SeriesUpTo(event, t) ==
    {event.start_time}
    \cup Range(StartsOf(generate_repeat_instances(event, event.start_time, t,
                                                  None, NoExceptions, NoCache)))

Max(S) == CHOOSE x \in S : \A y \in S : y <= x

\* occurrence_date is the start of a generated occurrence of the original
AtGeneratedOccurrence ==
    /\ OccurrenceDateUtc > Original.start_time
    /\ OccurrenceDateUtc \in SeriesUpTo(Original, OccurrenceDateUtc)

LastOccurrenceBefore(event, t) == Max({o \in SeriesUpTo(event, t) : o < t})

\* what C2 says of the original Event after the request
EndsAtPreviousOccurrence ==
    /\ events[request.event_id].repeat_end_type = "date"
    /\ events[request.event_id].repeat_until
          = LastOccurrenceBefore(Original, OccurrenceDateUtc)

AtOccurrence == OccurrenceDateUtc \in SeriesUpTo(Original, OccurrenceDateUtc)

\* a scope=future request that the handler applies
AppliedFutureRequest ==
    /\ FutureRequest
    /\ request.op = "update" => SuppliesField

\* C3: after a PATCH or DELETE with scope=future at the start D of any
\* occurrence, the first included, the original Event has no occurrence, base
\* or generated, that starts at or after D.
C3_NoOccurrenceFromD ==
    (AppliedFutureRequest /\ AtOccurrence) =>
        \A o \in SeriesUpTo(events[request.event_id],
                            AdvanceN(Original, OccurrenceDateUtc, 2)) :
            o < OccurrenceDateUtc

\* a PATCH with scope=future on a repeating Event, answered 200
FuturePatch == FutureRequest /\ request.op = "update"

\* the Event a scope=future PATCH inserted
Continuation == events[before.writes + 1]

RecurrenceFields ==
    {"repeat_type", "repeat_interval", "repeat_days", "repeat_end_type",
     "repeat_until", "repeat_count"}

\* C4: the continuation Event of a PATCH with scope=future has, in every
\* recurrence field the body does not supply, the value the original Event
\* had before the request, so it goes on producing occurrences.
C4_ContinuationCarriesRecurrence ==
    (FuturePatch /\ SuppliesField /\ AtGeneratedOccurrence) =>
        /\ Cardinality(DOMAIN events) = Cardinality(DOMAIN before.events) + 1
        /\ \A f \in RecurrenceFields \ DOMAIN request.body :
              Continuation[f] = Original[f]

\* the Events a request added to the store
Inserted == {events[id] : id \in DOMAIN events \ DOMAIN before.events}

\* what C5 says of the store after the request
OneContinuationAtD ==
    /\ Cardinality(Inserted) = 1
    /\ \A e \in Inserted :
          /\ e.parent_event_id = request.event_id
          /\ e.start_time = OccurrenceDateUtc
          /\ e.end_time - e.start_time = Original.end_time - Original.start_time

NoTimesSupplied == DOMAIN request.body \cap {"start_time", "end_time"} = {}

ThisPatch ==
    /\ request.op = "update"
    /\ request.scope = "this"
    /\ request.occurrence_date # None
    /\ response.status = 200
    /\ request.event_id \in DOMAIN before.events
    /\ before.events[request.event_id].repeat_type # "none"

\* the listing of the series of the original Event, over the stretch that
\* requests reach, from a store
SeriesListing(evs, excs) ==
    generate_repeat_instances(evs[request.event_id],
                              Original.start_time, Horizon(Original), None,
                              ExceptionsOf(excs, request.event_id), evs)

\* an entry of a series listing that stands for an occurrence on another
\* date than that of D
OnOtherDate(x) ==
    /\ x.id \notin DOMAIN events \ DOMAIN before.events
    /\ ~(x.id = request.event_id
         /\ DateOf(x.start_time) = DateOf(OccurrenceDateUtc))

\* C6: a PATCH with scope=this at D leaves the base Event as it was, start,
\* end and every repeat field, and every occurrence of the series on another
\* date is generated with the start and end it had before.
C6_ThisLeavesSeries ==
    ThisPatch =>
        /\ events[request.event_id] = Original
        /\ SelectSeq(SeriesListing(events, exceptions), OnOtherDate)
              = SelectSeq(SeriesListing(before.events, before.exceptions), OnOtherDate)

C6_Witness ==
    /\ ThisPatch
    /\ SuppliesField
    /\ Len(exceptions) = Len(before.exceptions) + 1
    /\ \E x \in Range(SeriesListing(events, exceptions)) :
          /\ x.id \in DOMAIN events \ DOMAIN before.events
          /\ x.is_repeat_instance
    /\ Len(SelectSeq(SeriesListing(events, exceptions), OnOtherDate)) >= 2

\* ---- the generator, queried for the stored Event 1 ----

Generated == request.op = "generate"

Base == events[1]

\* the UTC start of an entry of the response
UtcStart(x) == convert_user_to_utc_timezone(x.start_time, request.tz)

DeletedDates ==
    {exceptions[i].exception_date :
        i \in {j \in 1..Len(exceptions) : exceptions[j].exception_type = "deleted"}}

Modified ==
    {exceptions[i] :
        i \in {j \in 1..Len(exceptions) : exceptions[j].exception_type = "modified"}}

\* the starts of the occurrences the rule of the Event puts in the window of
\* the request, exceptions aside
StartsInWindow ==
    Range(StartsOf(generate_repeat_instances(Base, request.start_date,
                                             request.end_date, None,
                                             NoExceptions, NoCache)))

\* an instant as the response shows it to the caller
Shown(t) == convert_utc_to_user_timezone(t, request.tz)

\* C7: the generator lists no occurrence on a date that has a deleted
\* exception, and lists the occurrence of a date that has a modified exception
\* with the title, start_time and end_time of the replacement Event,
\* is_repeat_instance true and original_start the start_time of the base Event.
C7_ExceptionOverlay ==
    Generated =>
        /\ \A x \in Entries :
              x.id = Base.id => DateOf(UtcStart(x)) \notin DeletedDates
        /\ \A m \in Modified :
              (/\ m.exception_date \notin DeletedDates
               /\ \E t \in StartsInWindow : DateOf(t) = m.exception_date)
              => \E x \in Entries :
                    /\ x.id = m.modified_event_id
                    /\ x.title = events[m.modified_event_id].title
                    /\ x.start_time = Shown(events[m.modified_event_id].start_time)
                    /\ x.end_time = Shown(events[m.modified_event_id].end_time)
                    /\ x.is_repeat_instance
                    /\ x.original_start = Shown(Base.start_time)

EndsOnDate == Base.repeat_end_type = "date" /\ Base.repeat_until # None

\* the Event with its series never ended
Unended(event) ==
    [event EXCEPT !.repeat_end_type = "never", !.repeat_until = None,
                  !.repeat_count = None]

\* repeat_until is the start of an occurrence of the rule after the base one
UntilIsOccurrence ==
    Base.repeat_until \in
        Range(StartsOf(generate_repeat_instances(
                           Unended(Base), Base.start_time, Base.repeat_until,
                           None, NoExceptions, NoCache)))
        \ {Base.start_time}

IntersectsWindow(t) ==
    /\ t + (Base.end_time - Base.start_time) >= request.start_date
    /\ t <= request.end_date

\* C8: for an Event ended by date, the occurrence that starts at repeat_until
\* is listed when it intersects the window (unless an exception deleted it,
\* and as its replacement when one modified it), and no listed occurrence of
\* the rule starts after repeat_until.
C8_RepeatUntilInclusive ==
    (Generated /\ EndsOnDate) =>
        /\ \A x \in Entries : x.id = Base.id => UtcStart(x) <= Base.repeat_until
        /\ (/\ UntilIsOccurrence
            /\ IntersectsWindow(Base.repeat_until)
            /\ DateOf(Base.repeat_until) \notin DeletedDates)
           => \E x \in Entries :
                 \/ x.id = Base.id /\ UtcStart(x) = Base.repeat_until
                 \/ \E m \in Modified :
                       /\ m.exception_date = DateOf(Base.repeat_until)
                       /\ x.id = m.modified_event_id

C8_Witness ==
    /\ Generated
    /\ EndsOnDate
    /\ UntilIsOccurrence
    /\ IntersectsWindow(Base.repeat_until)
    /\ Base.repeat_type = "monthly"
    /\ \E x \in Entries : x.id = Base.id /\ UtcStart(x) = Base.repeat_until

\* a window that holds the base occurrence and n steps of the rule after it
FullRange(n) ==
    /\ request.start_date <= Base.start_time
    /\ request.end_date >= AdvanceN(Base, Base.start_time, n)

MonWedFriTwice ==
    /\ Base.repeat_type = "weekly"
    /\ Base.repeat_days = {0, 2, 4}
    /\ Base.repeat_interval = 1
    /\ Base.repeat_end_type = "count"
    /\ Base.repeat_count = 2

\* the Mondays, Wednesdays and Fridays of the fourteen days from the base
\* start, at the time of day of the base start
TwoWeekCycles ==
    {AddDays(Base.start_time, k) :
        k \in {j \in 0..13 : Weekday(AddDays(Base.start_time, j)) \in {0, 2, 4}}}

\* C9: a weekly Event on Mon/Wed/Fri with interval 1 and repeat_count 2,
\* queried over its full range, lists each Monday, Wednesday and Friday of its
\* first two week cycles once (6 dates at most with the base) and nothing of
\* a later cycle.
C9_CountBoundsWeekCycles ==
    (Generated /\ MonWedFriTwice /\ exceptions = <<>> /\ FullRange(3)) =>
        /\ {UtcStart(x) : x \in Entries} = TwoWeekCycles \ {Base.start_time}
        /\ Len(response.body) = Cardinality(TwoWeekCycles \ {Base.start_time})
        /\ Cardinality(TwoWeekCycles) <= 6

C9_Witness ==
    /\ Generated
    /\ MonWedFriTwice
    /\ exceptions = <<>>
    /\ FullRange(3)
    /\ Base.start_time \in TwoWeekCycles
    /\ Len(response.body) = 5

\* the instant one interval of the rule after t, from the calendar
OneIntervalAfter(t) ==
    LET n == Base.repeat_interval
        months == IF Base.repeat_type = "yearly" THEN 12 * n ELSE n
        index == YearOf(DateOf(t)) * 12 + (MonthOf(DateOf(t)) - 1) + months
        y == index \div 12
        m == (index % 12) + 1
        d == Min(DayOfMonth(DateOf(t)), DaysInMonth(y, m))
    IN CASE Base.repeat_type = "daily"  -> t + n * MinutesPerDay
         [] Base.repeat_type = "weekly" -> t + 7 * n * MinutesPerDay
         [] relativedelta -> DaysFromCivil(y, m, d) * MinutesPerDay + TimeOfDay(t)
         [] Base.repeat_type = "monthly" -> t + 30 * n * MinutesPerDay
         [] OTHER -> t + 365 * n * MinutesPerDay

CountedSteps ==
    /\ Base.repeat_type \in {"daily", "weekly", "monthly", "yearly"}
    /\ Base.repeat_days = {}
    /\ Base.repeat_end_type = "count"
    /\ Base.repeat_count # None

\* C10: a daily, monthly, yearly or plain weekly Event with repeat_count n,
\* queried over its full range, lists exactly n instances after the base,
\* each one interval after the one before; every second day three times from
\* 2024-03-01T08:00 lists 03-03, 03-05 and 03-07.
C10_CountBoundsInstances ==
    (Generated /\ CountedSteps /\ exceptions = <<>>
     /\ FullRange(Base.repeat_count)) =>
        /\ Len(response.body) = Base.repeat_count
        /\ \A i \in 1..Len(response.body) :
              UtcStart(response.body[i])
                 = OneIntervalAfter(IF i = 1 THEN Base.start_time
                                    ELSE UtcStart(response.body[i - 1]))
        /\ (/\ Base.repeat_type = "daily"
            /\ Base.repeat_interval = 2
            /\ Base.repeat_count = 3
            /\ Base.start_time = At(2024, 3, 1, 8, 0))
           => StartsOf(response.body)
                 = << Shown(At(2024, 3, 3, 8, 0)), Shown(At(2024, 3, 5, 8, 0)),
                      Shown(At(2024, 3, 7, 8, 0)) >>

C10_Witness ==
    /\ Generated
    /\ CountedSteps
    /\ exceptions = <<>>
    /\ Base.repeat_type = "daily"
    /\ Base.repeat_interval = 2
    /\ Base.repeat_count = 3
    /\ Base.start_time = At(2024, 3, 1, 8, 0)
    /\ request.end_date > At(2024, 3, 8, 0, 0)
    /\ Len(response.body) = 3

\* ------------------------------------------------------------------------
\* Error handling of the Series Editor

\* a PATCH or DELETE on a stored repeating Event
SeriesEdit ==
    /\ request.op \in {"update", "delete"}
    /\ request.event_id \in DOMAIN before.events
    /\ before.events[request.event_id].repeat_type # "none"

\* the permission check of update_event and delete_event lets the caller by
MayEdit ==
    \/ request.caller.role_id = 1
    \/ Original.user_id = request.caller.user_id

StoreUnchanged ==
    /\ events = before.events
    /\ exceptions = before.exceptions

\* C11: a PATCH or DELETE on a repeating Event with scope this or future and
\* no occurrence_date is answered 400, whatever its body holds, and leaves
\* every stored Event and EventException as it was. Stated for the callers
\* the permission check lets by.
C11_MissingOccurrenceDateIs400 ==
    (/\ SeriesEdit
     /\ MayEdit
     /\ request.scope \in {"this", "future"}
     /\ request.occurrence_date = None)
    => /\ response.status = 400
       /\ StoreUnchanged

\* C12: a PATCH or DELETE on a repeating Event whose scope is none of this,
\* future and all is answered 400 and changes nothing in the store: it is
\* neither applied as scope=all nor answered with a success status. Stated
\* for the callers the permission check lets by.
C12_UnknownScopeIs400 ==
    (/\ SeriesEdit
     /\ MayEdit
     /\ request.scope \notin {"this", "future", "all"})
    => /\ response.status = 400
       /\ StoreUnchanged

\* C13: a PATCH or DELETE on a stored Event by a caller who is not an admin
\* and is not the Event's created_by is answered 403, and no Event or
\* EventException is created, changed or removed by it.
C13_OnlyAdminOrCreatorEdits ==
    (/\ request.op \in {"update", "delete"}
     /\ request.event_id \in DOMAIN before.events
     /\ request.caller.role_id # 1
     /\ Original.created_by # request.caller.user_id)
    => /\ response.status = 403
       /\ StoreUnchanged

\* ------------------------------------------------------------------------
\* Error handling of POST /events

Posted == request.op = "create"

PostedStart == convert_user_to_utc_timezone(request.data.start_time, request.tz)

PostedEnd == convert_user_to_utc_timezone(request.data.end_time, request.tz)

PostedUntil == convert_user_to_utc_timezone(request.data.repeat_until, request.tz)

EndsBeforeItStarts == PostedEnd <= PostedStart

UntilNotAfterStart == request.data.repeat_until # None /\ PostedUntil <= PostedStart

CountMissing ==
    /\ request.data.repeat_end_type = "count"
    /\ request.data.repeat_count \in {None, 0}

OwnerMissing == request.data.user_id \notin ActiveUsers

ForAnotherUser ==
    /\ request.caller.role_id # 1
    /\ request.data.user_id # request.caller.user_id

Answered(code) == response.status = code /\ StoreUnchanged

C15_CreateRejectsNonPositive ==
    Posted =>
        /\ (\/ request.data.repeat_interval < 1
            \/ /\ request.data.repeat_end_type = "count"
               /\ request.data.repeat_count < 1)
           => /\ response.status \in 400..499
              /\ StoreUnchanged
        /\ \A event \in Inserted : event.repeat_interval >= 1

\* ------------------------------------------------------------------------
\* Atomicity of the Series Editor

\* exceptions the request added
Appended ==
    {exceptions[i] : i \in (DOMAIN exceptions) \ (DOMAIN before.exceptions)}

\* scope=this: one replacement Event and the modified exception pointing at it
ReplacedThisOccurrence ==
    /\ \A id \in DOMAIN before.events : events[id] = before.events[id]
    /\ SubSeq(exceptions, 1, Len(before.exceptions)) = before.exceptions
    /\ \E new_event \in Inserted :
          /\ Inserted = {new_event}
          /\ new_event.repeat_type = "none"
          /\ \E x \in Appended :
                /\ Appended = {x}
                /\ x.event_id = request.event_id
                /\ x.exception_type = "modified"
                /\ x.modified_event_id = new_event.id
                /\ x.exception_date = DateOf(OccurrenceDateUtc)

\* scope=future: the original truncated and one continuation under it
SplitTheSeries ==
    /\ DOMAIN before.events \subseteq DOMAIN events
    /\ \A id \in DOMAIN before.events \ {request.event_id} :
          events[id] = before.events[id]
    /\ exceptions = before.exceptions
    /\ events[request.event_id].repeat_end_type = "date"
    /\ events[request.event_id].repeat_until
          = calculate_previous_occurrence(Original, OccurrenceDateUtc)
    /\ \E new_event \in Inserted :
          /\ Inserted = {new_event}
          /\ new_event.parent_event_id = request.event_id

\* C16: every PATCH on a repeating Event commits as a whole, runs in which a
\* write or the commit fails and is rolled back included: with scope=future
\* the original is truncated and the continuation inserted, or the store is
\* as before; with scope=this the replacement Event and its modified
\* exception are both inserted, or the store is as before.
C16_SeriesEditIsAtomic ==
    (SeriesEdit /\ request.op = "update") =>
        /\ request.scope = "this" => (ReplacedThisOccurrence \/ StoreUnchanged)
        /\ request.scope = "future" => (SplitTheSeries \/ StoreUnchanged)

\* the commit of a scope=this or scope=future PATCH failed and was rolled back
C16_Witness ==
    /\ SeriesEdit
    /\ request.op = "update"
    /\ request.scope \in {"this", "future"}
    /\ request.occurrence_date # None
    /\ SuppliesField
    /\ response.status = 500
    /\ StoreUnchanged

\* ------------------------------------------------------------------------
\* The window of GET /events

\* a listing asked for with both start_date and end_date
ListedWindow ==
    /\ request.op = "list"
    /\ request.start_date # None
    /\ request.end_date # None

\* the UTC end of an entry of the response
UtcEnd(x) == convert_user_to_utc_timezone(x.end_time, request.tz)

WindowStartUtc == convert_user_to_utc_timezone(request.start_date, request.tz)

WindowEndUtc == convert_user_to_utc_timezone(request.end_date, request.tz)

\* C17: when GET /events is called with both start_date and end_date, every
\* entry of the response, base Event or generated occurrence, has an
\* interval [start_time, end_time] that intersects the queried window.
C17_ListedEntriesInWindow ==
    ListedWindow =>
        \A x \in Entries : /\ UtcEnd(x) >= WindowStartUtc
                           /\ UtcStart(x) <= WindowEndUtc

\* ------------------------------------------------------------------------
\* Invariants of the stored Events

\* C18: whatever requests have been applied, every stored Event ends
\* strictly after it starts.
C18_EndAfterStart ==
    \A id \in DOMAIN events : events[id].end_time > events[id].start_time

\* C19: whatever requests have been applied, every stored Event with
\* repeat_end_type=date has a repeat_until, and it is strictly after the
\* Event's start_time.
C19_UntilAfterStart ==
    \A id \in DOMAIN events :
        events[id].repeat_end_type = "date" =>
            /\ events[id].repeat_until # None
            /\ events[id].repeat_until > events[id].start_time

\* ------------------------------------------------------------------------
\* Specification of the Series Editor on a stored series: the store holds
\* one daily Event, as POST /events by an admin for user 2 leaves it, and
\* MaxWrites requests of PATCH and DELETE are applied to it.

InitSeries ==
    LET t == At(2024, 1, 31, 8, 0)
        row == NewEventRow(EventCreate(2, Daily, t, t + 60, Never), Admin, None)
    IN /\ relativedelta = TRUE
       /\ events = InsertEvent(<<>>, 1, row)
       /\ exceptions = <<>>
       /\ next_event_id = 2
       /\ next_exception_id = 1
       /\ request = [op |-> "none"]
       /\ response = [status |-> 0, body |-> <<>>]
       /\ before = [events |-> InsertEvent(<<>>, 1, row), exceptions |-> <<>>,
                    writes |-> 0]
       /\ writes = 0

NextSeries == Update \/ Delete

SeriesSpec == InitSeries /\ [][NextSeries]_vars

\* C20: whatever scope=this updates and deletes have been applied, the store
\* holds at most one EventException for an Event and a date.
C20_OneExceptionPerDate ==
    \A i, j \in DOMAIN exceptions :
        (/\ exceptions[i].event_id = exceptions[j].event_id
         /\ exceptions[i].exception_date = exceptions[j].exception_date)
        => i = j

\* ------------------------------------------------------------------------
\* Specification of the timezone normalizer on datetime values: a datetime
\* is its instant (minutes, as everywhere above) and its tzinfo, None for a
\* naive one and 0 for one read from an ISO string ending in Z or +00:00.

Datetime(minutes, tzinfo) == [minutes |-> minutes, tzinfo |-> tzinfo]

\* convert_utc_to_user_timezone on a datetime: without an offset the
\* argument itself; otherwise tzinfo is dropped and the offset subtracted
utc_to_user(utc_datetime, timezone_offset_minutes) ==
    IF timezone_offset_minutes = None THEN utc_datetime
    ELSE Datetime(convert_utc_to_user_timezone(utc_datetime.minutes,
                                               timezone_offset_minutes), None)

\* convert_user_to_utc_timezone on a datetime
user_to_utc(user_datetime, timezone_offset_minutes) ==
    IF timezone_offset_minutes = None THEN user_datetime
    ELSE Datetime(convert_user_to_utc_timezone(user_datetime.minutes,
                                               timezone_offset_minutes), None)

\* datetime.__eq__: a naive and an aware datetime are never equal
DatetimeEq(a, b) ==
    IF (a.tzinfo = None) # (b.tzinfo = None) THEN FALSE
    ELSE a.minutes - (IF a.tzinfo = None THEN 0 ELSE a.tzinfo)
            = b.minutes - (IF b.tzinfo = None THEN 0 ELSE b.tzinfo)

\* instants around midnight, a month end and the leap day
Instants ==
    {At(2024, 1, 1, 0, 0), At(2024, 1, 31, 8, 0), At(2024, 2, 29, 23, 30),
     At(2024, 3, 1, 8, 0), At(2024, 12, 31, 23, 59), At(2025, 1, 1, 0, 1)}

\* X-Timezone-Offset values: absent, UTC, UTC+2, UTC-5, UTC+5:30, UTC-12
Offsets == TzOffsets \cup {0, -330, 720}

InitTz ==
    /\ relativedelta = TRUE
    /\ events = <<>>
    /\ exceptions = <<>>
    /\ next_event_id = 1
    /\ next_exception_id = 1
    /\ \E t \in Instants, tzinfo \in {None, 0}, m \in Offsets :
          request = [op |-> "none", t |-> Datetime(t, tzinfo), m |-> m]
    /\ response = [status |-> 0, body |-> <<>>]
    /\ before = [events |-> <<>>, exceptions |-> <<>>, writes |-> 0]
    /\ writes = 0

\* a local time goes to UTC and comes back
RoundTrip ==
    /\ request.op = "none"
    /\ request' = [request EXCEPT !.op = "round_trip"]
    /\ response' = [status |-> 200,
                    body |-> utc_to_user(user_to_utc(request.t, request.m),
                                         request.m)]
    /\ UNCHANGED <<store, relativedelta, before, writes>>

NextTz == RoundTrip

TzSpec == InitTz /\ [][NextTz]_vars

RoundTripped == request.op = "round_trip"

\* C21, as stated: for every timestamp t and every offset m, the absent
\* offset included, converting t to UTC and back to local time gives t.
C21_RoundTrip_AsStated ==
    RoundTripped => DatetimeEq(response.body, request.t)

\* C21, amended: the same for every naive timestamp t; a timestamp that
\* carries a tzinfo comes back equal under the absent offset only.
C21_RoundTrip ==
    RoundTripped =>
        /\ response.body.minutes = request.t.minutes
        /\ (request.t.tzinfo = None \/ request.m = None)
           => DatetimeEq(response.body, request.t)

\* a naive local time has gone to UTC and back under UTC+2
C21_Witness ==
    /\ RoundTripped
    /\ request.t = Datetime(At(2024, 2, 29, 23, 30), None)
    /\ request.m = -120
    /\ response.body = request.t

\* ------------------------------------------------------------------------
\* Week cycles and repeat_count

\* a weekly Event with repeat_days, ended by count, generated over a window
\* that holds one cycle more than its repeat_count, with no exceptions
CountedWeekCycles ==
    /\ Generated
    /\ Base.repeat_type = "weekly"
    /\ Base.repeat_days # {}
    /\ Base.repeat_end_type = "count"
    /\ Base.repeat_count >= 1
    /\ exceptions = <<>>
    /\ FullRange(Base.repeat_count + 1)

\* the occurrences of the k-th week cycle: the allowed weekdays of the seven
\* days from the start of the cycle, the base occurrence left out
CycleStarts(k) ==
    {AddDays(Base.start_time, 7 * k * Base.repeat_interval + d) :
        d \in {j \in 0..6 :
                  Weekday(AddDays(Base.start_time, 7 * k * Base.repeat_interval + j))
                     \in Base.repeat_days}}
    \ {Base.start_time}

\* the cycles up to the k-th that have an occurrence
ProducingUpTo(k) == {j \in 0..k : CycleStarts(j) # {}}

\* the first n cycles that have an occurrence
FirstProducing(n) ==
    {k \in 0..n : CycleStarts(k) # {} /\ Cardinality(ProducingUpTo(k)) <= n}

\* C22: for a weekly Event with repeat_days ended by count, repeat_count = n
\* counts the week cycles that produced an instance: the generator lists the
\* instances of the first n such cycles, and a cycle without a generated
\* instance (a first cycle whose only allowed day is the base occurrence)
\* does not use up the count.
C22_CountSkipsEmptyCycles ==
    CountedWeekCycles =>
        {UtcStart(x) : x \in Entries}
           = UNION {CycleStarts(k) : k \in FirstProducing(Base.repeat_count)}

\* ------------------------------------------------------------------------
\* Completeness of GET /events

\* a listing with instances over a window, asked for by a user who is not an
\* admin
ListedWithInstances ==
    /\ ListedWindow
    /\ request.include_repeating
    /\ request.caller.role_id # 1

\* exceptions of an Event on the date of an instant
ExceptionsOn(event, t) ==
    {exceptions[i] :
        i \in {j \in 1..Len(exceptions) :
                  /\ exceptions[j].event_id = event.id
                  /\ exceptions[j].exception_date = DateOf(t)}}

\* the occurrence of the Event that starts at t intersects the window
OccurrenceInWindow(event, t) ==
    /\ t + (event.end_time - event.start_time) >= WindowStartUtc
    /\ t <= WindowEndUtc

\* the response has the occurrence: as an entry of the Event that starts at
\* t or, when a modified exception replaced it, as an entry of the replacement
OccurrenceReturned(event, t) ==
    LET replaced == {x \in ExceptionsOn(event, t) : x.exception_type = "modified"}
    IN IF replaced = {}
       THEN \E x \in Entries : x.id = event.id /\ UtcStart(x) = t
       ELSE \E x \in Entries : \E r \in replaced : x.id = r.modified_event_id

\* C23: a listing with include_repeating and both dates returns every
\* occurrence of the caller's repeating Events that is not deleted and whose
\* interval [instance_start, instance_end] intersects the window, also one
\* that starts before the window and ends in it, and the last one of a series
\* ended by repeat_until.
C23_EveryOccurrenceInWindow ==
    ListedWithInstances =>
        \A id \in DOMAIN events :
            (events[id].user_id = request.caller.user_id /\ HasStep(events[id])) =>
                \A t \in Range(OccurrenceStarts(events[id])) :
                    (/\ OccurrenceInWindow(events[id], t)
                     /\ \A x \in ExceptionsOn(events[id], t) :
                           x.exception_type # "deleted")
                    => OccurrenceReturned(events[id], t)

\* ------------------------------------------------------------------------
\* Order of the generated instances
\* ------------------------------------------------------------------------

\* the entries of the response are in ascending order of start_time
Ascending(entries) ==
    \A i \in 1..Len(entries), j \in 1..Len(entries) :
        i < j => entries[i].start_time <= entries[j].start_time

\* an entry of the response taken from a replacement Event
Substituted(x) == ~ComputedFromRule(x)

\* C24: for every repeating Event, exception overlay and window, the list
\* returned by generate_repeat_instances is in ascending order of start_time,
\* also when occurrences are substituted by modified replacement Events.
C24_InstancesAscending ==
    Generated => Ascending(response.body)

\* ------------------------------------------------------------------------
\* Generation and the window
\* ------------------------------------------------------------------------

\* windows that contain the window of the request: the widest window of the
\* Event, and the window of the request begun before the base. The
\* comparison with the widest window carries every pair W, W': an occurrence
\* that intersects W intersects W', so selecting for W' and then for W is
\* selecting for W.
WiderWindows ==
    LET first == Base.start_time - 1
        last  == AdvanceN(Base, Base.start_time, MaxSteps + 1)
    IN {<<first, last>>, <<first, request.end_date>>}

\* the instances generated for the window w, for the caller of the request
GeneratedFor(w) ==
    generate_repeat_instances(Base, w[1], w[2], request.tz,
                              ExceptionsOf(exceptions, 1),
                              ModifiedEventsCache(exceptions))

\* the entry lies in the window of the request, at least in part
IntersectsRequest(x) ==
    UtcEnd(x) >= request.start_date /\ UtcStart(x) <= request.end_date

\* C25: generation is independent of the window: for windows W contained in
\* W', the instances generated for W are exactly the instances generated for
\* W' that intersect W, so narrowing the window never adds an occurrence.
C25_WindowIndependent_AsStated ==
    Generated =>
        \A w \in WiderWindows :
            response.body = SelectSeq(GeneratedFor(w), IntersectsRequest)

\* the start of the occurrence an entry stands for: its own start for an
\* instance computed from the rule, and for a substituted entry the start of
\* the occurrence its replacement Event replaces
OccurrenceStartOf(x) ==
    IF ComputedFromRule(x) THEN UtcStart(x)
    ELSE LET replaced == CHOOSE e \in Modified : e.modified_event_id = x.id
         IN OnDateAtTimeOf(replaced.exception_date * MinutesPerDay, Base.start_time)

\* the occurrence of the entry lies in the window of the request, at least
\* in part (event.py 258-259, 337-339)
OccurrenceIntersectsRequest(x) ==
    /\ OccurrenceStartOf(x) + (Base.end_time - Base.start_time) >= request.start_date
    /\ OccurrenceStartOf(x) <= request.end_date

\* C25 (amended): for windows W contained in W', the instances generated for
\* W are exactly the instances generated for W' whose occurrence intersects
\* W, where the occurrence of a substituted instance is the one its
\* replacement Event replaces; the count is consumed from the base on.
C25_WindowIndependent ==
    Generated =>
        \A w \in WiderWindows :
            response.body = SelectSeq(GeneratedFor(w), OccurrenceIntersectsRequest)

\* a count-ended Event generated for a window that begins after its first
\* repeated occurrence has ended, where a wider window shows more instances
C25_Witness ==
    /\ Generated
    /\ HasStep(Base)
    /\ ~(Base.repeat_type = "weekly" /\ Base.repeat_days # {})
    /\ Base.repeat_end_type = "count"
    /\ request.start_date > AdvanceN(Base, Base.end_time, 1)
    /\ response.body # <<>>
    /\ \E w \in WiderWindows : Len(GeneratedFor(w)) > Len(response.body)

\* ------------------------------------------------------------------------
\* Specification of the loops: a stored Event, and generate_repeat_instances
\* or calculate_previous_occurrence run on it one iteration at a time
\* ------------------------------------------------------------------------

\* occurrence_count and week_cycle_count are only compared with repeat_count:
\* they are tracked up to CountCap, which is above every repeat_count drawn
CountCap == 3

LoopStart == At(2024, 1, 31, 8, 0)

\* bodies of POST /events with repeat_interval 0, 1 and 2
LoopBodies ==
    {EventCreate(2, rule, LoopStart, LoopStart + 60, ending) :
        rule \in {[repeat_type |-> ty, repeat_interval |-> n, repeat_days |-> ds] :
                     ty \in {"daily", "weekly", "monthly"}, n \in 0..2,
                     ds \in {{}, {0, 2, 4}}},
        ending \in {Never,
                    [repeat_end_type |-> "count", repeat_until |-> None,
                     repeat_count |-> 2],
                    [repeat_end_type |-> "date",
                     repeat_until |-> AddDays(LoopStart, 14),
                     repeat_count |-> None]}}

\* windows around the base, after it and before it
LoopWindows ==
    {<<LoopStart - 1, AddDays(LoopStart, 7)>>,
     <<LoopStart + 61, AddDays(LoopStart, 10)>>,
     <<AddDays(LoopStart, 0 - 2), AddDays(LoopStart, 0 - 1)>>}

\* occurrence dates of scope=future requests
LoopTargets == {LoopStart, AddDays(LoopStart, 3), AddDays(LoopStart, 15)}

\* the store after a POST /events that create_event accepted
InitLoop ==
    /\ relativedelta \in BOOLEAN
    /\ \E data \in LoopBodies :
          /\ CreateStatus(data, Admin, None, FALSE) = 201
          /\ events = InsertEvent(<<>>, 1, NewEventRow(data, Admin, None))
    /\ exceptions = <<>>
    /\ next_event_id = 2
    /\ next_exception_id = 1
    /\ request = [op |-> "none"]
    /\ response = [status |-> 0, body |-> <<>>]
    /\ before = [events |-> <<>>, exceptions |-> <<>>, writes |-> 0]
    /\ writes = 0

WeeklyWithDays(event) == event.repeat_type = "weekly" /\ event.repeat_days # {}

\* the locals of the loops at their entry (event.py 112-113, 210-213, 308-325)
LoopEntry(event, current_date) ==
    [current_date |-> current_date, previous |-> event.start_time,
     occurrence_count |-> 0, week_number |-> 0, week_cycle_count |-> 0]

Running(op) == request.op = op /\ response.status = 0

Return(status) ==
    /\ response' = [response EXCEPT !.status = status]
    /\ UNCHANGED <<request, store, relativedelta, before, writes>>

\* a pass of the loop body; passes is the parity of the passes made
Iterate(locals) ==
    /\ response' = [response EXCEPT !.locals = locals, !.passes = 1 - @]
    /\ UNCHANGED <<request, store, relativedelta, before, writes>>

\* generate_repeat_instances is entered with a window
CallGenerator ==
    /\ request.op = "none"
    /\ \E w \in LoopWindows :
          request' = [op |-> "generate_repeat_instances",
                      start_date |-> w[1], end_date |-> w[2]]
    /\ response' = [status |-> 0, body |-> <<>>, passes |-> 0,
                    locals |-> LoopEntry(events[1],
                                         Advance(events[1], events[1].start_time))]
    /\ UNCHANGED <<store, relativedelta, before, writes>>

\* calculate_previous_occurrence is entered with a target date
CallPrevious ==
    /\ request.op = "none"
    /\ \E target_date \in LoopTargets :
          request' = [op |-> "calculate_previous_occurrence",
                      target_date |-> target_date]
    /\ response' = [status |-> 0, body |-> <<>>, passes |-> 0,
                    locals |-> LoopEntry(events[1], events[1].start_time)]
    /\ UNCHANGED <<store, relativedelta, before, writes>>

\* one pass of "while current_date <= min(repeat_end, end_date)"
\* (event.py 327-393)
StepIteration ==
    /\ Running("generate_repeat_instances")
    /\ ~WeeklyWithDays(events[1])
    /\ LET event == events[1]
           l == response.locals
       IN IF l.current_date > Min(RepeatEnd(event, request.end_date), request.end_date)
          THEN Return(200)
          ELSE IF /\ event.repeat_end_type = "count"
                  /\ Truthy(event.repeat_count)
                  /\ l.occurrence_count >= event.repeat_count
          THEN Return(200)
          ELSE IF HasStep(event)
          THEN Iterate([l EXCEPT
                          !.occurrence_count = Min(l.occurrence_count + 1, CountCap),
                          !.current_date = Advance(event, l.current_date)])
          ELSE Return(200)

\* one pass of "while True" over the weeks (event.py 215-301); the remainder
\* by a repeat_interval of 0 raises ZeroDivisionError
WeekIteration ==
    /\ Running("generate_repeat_instances")
    /\ WeeklyWithDays(events[1])
    /\ LET event == events[1]
           l == response.locals
           week_start == AddDays(event.start_time, l.week_number * 7)
       IN IF week_start > RepeatEnd(event, request.end_date) THEN Return(200)
          ELSE IF event.repeat_interval = 0 THEN Return(500)
          ELSE IF l.week_number % event.repeat_interval # 0
          THEN Iterate([l EXCEPT !.week_number = l.week_number + 1])
          ELSE IF /\ event.repeat_end_type = "count"
                  /\ l.week_cycle_count >= event.repeat_count
          THEN Return(200)
          ELSE Iterate([l EXCEPT
                          !.week_cycle_count = Min(l.week_cycle_count + 1, CountCap),
                          !.week_number = l.week_number + 1])

\* one pass of "while current < target_date" (event.py 115-118, 151-175)
PreviousStepIteration ==
    /\ Running("calculate_previous_occurrence")
    /\ ~WeeklyWithDays(events[1])
    /\ LET event == events[1]
           l == response.locals
       IN IF HasStep(event) /\ l.current_date < request.target_date
          THEN Iterate([l EXCEPT !.previous = l.current_date,
                                 !.current_date = Advance(event, l.current_date)])
          ELSE Return(200)

\* one pass of "while True" over the weeks (event.py 126-147)
PreviousWeekIteration ==
    /\ Running("calculate_previous_occurrence")
    /\ WeeklyWithDays(events[1])
    /\ LET event == events[1]
           l == response.locals
           week_start == AddDays(event.start_time, l.week_number * 7)
       IN IF week_start >= request.target_date THEN Return(200)
          ELSE IF event.repeat_interval = 0 THEN Return(500)
          ELSE Iterate([l EXCEPT
                          !.previous =
                              IF l.week_number % event.repeat_interval = 0
                              THEN PreviousInWeek(event, week_start, l.previous,
                                                  request.target_date)
                              ELSE l.previous,
                          !.week_number = l.week_number + 1])

NextLoop ==
    \/ CallGenerator
    \/ CallPrevious
    \/ StepIteration
    \/ WeekIteration
    \/ PreviousStepIteration
    \/ PreviousWeekIteration

\* the interpreter runs a loop that has been entered: a pass that can be
\* made is made
LoopSpec == InitLoop /\ [][NextLoop]_vars /\ WF_vars(NextLoop)

\* C26: for every Event stored through POST /events and every finite window
\* or target date, generate_repeat_instances and
\* calculate_previous_occurrence, once entered, return.
C26_LoopsTerminate ==
    (request.op # "none") ~> (response.status # 0)

\* ------------------------------------------------------------------------
\* Ownership of an Event under PATCH
\* ------------------------------------------------------------------------

\* the columns that tie an Event to its calendar and its origin
IdentityColumns == {"id", "user_id", "created_by", "parent_event_id"}

\* C27: no PATCH /events/{id}, with any scope and any body, changes the
\* user_id, created_by, id or parent_event_id of an existing Event.
C27_PatchKeepsIdentity ==
    request.op = "update" =>
        \A id \in (DOMAIN before.events) \cap (DOMAIN events) :
            \A c \in IdentityColumns : events[id][c] = before.events[id][c]

\* ------------------------------------------------------------------------
\* A replaced occurrence in a listing
\* ------------------------------------------------------------------------

\* the modified exceptions of the caller's Events whose occurrence lies in
\* the window of the listing
ReplacedInWindow ==
    {x \in Modified :
        /\ x.event_id \in DOMAIN events
        /\ x.modified_event_id \in DOMAIN events
        /\ events[x.event_id].user_id = request.caller.user_id
        /\ LET event == events[x.event_id]
               D == OnDateAtTimeOf(x.exception_date * MinutesPerDay, event.start_time)
           IN /\ WindowStartUtc <= D
              /\ D + (event.end_time - event.start_time) <= WindowEndUtc}

\* the positions of the response that show the Event
PositionsOf(event_id) ==
    {i \in 1..Len(response.body) : response.body[i].id = event_id}

\* C28: after a scope=this update of the occurrence on date D, a listing with
\* include_repeating over a window that contains D returns the modified
\* occurrence exactly once, not both as a standalone Event and as the
\* substituted repeat instance.
C28_ReplacementListedOnce ==
    ListedWithInstances =>
        \A x \in ReplacedInWindow :
            Cardinality(PositionsOf(x.modified_event_id)) = 1

\* ------------------------------------------------------------------------
\* DELETE with scope=future and the occurrences of the Event
\* ------------------------------------------------------------------------

\* a DELETE with scope=future that the handler applied to a repeating Event
DeletedFuture == FutureRequest /\ request.op = "delete"

\* the instant up to which the occurrences are compared: past the stretch
\* requests reach and past the occurrence_date
CompareUpTo == Max({Horizon(Original), AddDays(OccurrenceDateUtc, 1)})

\* C29: a DELETE with scope=future never adds occurrences: whatever the
\* ending of the repeating Event and the occurrence_date, the occurrences of
\* the Event after the operation are among its occurrences before it.
C29_DeleteFutureAddsNothing ==
    DeletedFuture =>
        SeriesUpTo(events[request.event_id], CompareUpTo)
            \subseteq SeriesUpTo(Original, CompareUpTo)

\* ------------------------------------------------------------------------
\* A deleted occurrence in a listing
\* ------------------------------------------------------------------------

\* the deleted exceptions left by DELETE with scope=this at the start of an
\* occurrence of one of the caller's Events that the query selects
DeletedOccurrences ==
    {x \in {exceptions[i] : i \in 1..Len(exceptions)} :
        /\ x.exception_type = "deleted"
        /\ x.event_id \in DOMAIN events
        /\ ListFilter(events[x.event_id], request.caller.user_id,
                      WindowStartUtc, WindowEndUtc)
        /\ \E t \in Range(OccurrenceStarts(events[x.event_id])) :
              DateOf(t) = x.exception_date}

\* the response shows the Event on the date
ListedOn(event_id, date) ==
    \E x \in Entries : x.id = event_id /\ DateOf(UtcStart(x)) = date

\* the response shows the occurrence of the Event that starts at t, with the
\* times and the title of the Event
ListedUnchanged(event, t) ==
    \E x \in Entries :
        /\ x.id = event.id
        /\ UtcStart(x) = t
        /\ UtcEnd(x) = t + (event.end_time - event.start_time)
        /\ x.title = event.title

\* C30: after a DELETE with scope=this at the start of any occurrence of a
\* repeating Event, the base occurrence included, a later listing has no
\* entry of that Event on that date and still has every other occurrence of
\* the Event in the window.
C30_DeletedOccurrenceGone ==
    ListedWithInstances =>
        \A x \in DeletedOccurrences :
            /\ ~ListedOn(x.event_id, x.exception_date)
            /\ \A t \in Range(OccurrenceStarts(events[x.event_id])) :
                  (/\ ExceptionsOn(events[x.event_id], t) = {}
                   /\ OccurrenceInWindow(events[x.event_id], t))
                  => ListedUnchanged(events[x.event_id], t)

====
